---- MODULE Spec2Model ----
(***************************************************************************)
(* Presence plane of the AuDiX user server (src/server.js): the in-memory  *)
(* registry live.clients / live.stations and the handlers of the presence  *)
(* WebSocket (identify, broadcast:start, broadcast:stop, broadcast:status, *)
(* listen:start, listen:stop, close).                                      *)
(*                                                                         *)
(* Strings are sequences of one-character strings, so that normalizeFlatId *)
(* (trim, then upper-case) is computed and not assumed.  The JavaScript    *)
(* value null is the one-element sequence NULL, which no input string can  *)
(* equal because its element is not a single character.                    *)
(*                                                                         *)
(* Spec runs the role and membership handlers on MaxConns connections.     *)
(* SpecTelemetry adds the wall clock and broadcast:status, which only      *)
(* write the contents of station records, on MaxTelemetryConns             *)
(* connections.  creator and last are history variables: no handler reads  *)
(* them.                                                                   *)
(***************************************************************************)
EXTENDS Integers, Sequences, FiniteSets, TLC

\* ---- bounds ----
\* presence connections accepted in a run of Spec
MaxConns == 3
\* presence connections accepted in a run of SpecTelemetry
MaxTelemetryConns == 2
MaxSigConns == 2
MaxStationConns == 1
MaxSessionConns == 1
MaxHbConns == 2
MaxSigHbConns == 1
MaxTicks == 2
MaxBan == 2
MaxPoolClients == 2
MaxProcs == 2
MaxRequests == 3
MaxSetupCalls == 2
MaxSids == 2
\* the last reading of the wall clock
MaxNow == 1

\* a ws object is named by the order in which the server accepted it
Conns == 1..MaxConns
TelemetryConns == 1..MaxTelemetryConns
SigConns == 1..MaxSigConns
StationConns == 1..MaxStationConns
PoolClients == 1..MaxPoolClients
Procs == 1..MaxProcs
Times == 0..MaxNow

\* ---- JavaScript values ----
NULL == <<"null">>

Falsy(x) == x = NULL \/ x = <<>>

Truthy(x) == ~Falsy(x)

\* String(x || "")
StringOrEmpty(x) == IF Falsy(x) THEN <<>> ELSE x

IsSpace(c) == c = " "

RECURSIVE TrimStart(_)
TrimStart(s) ==
  IF s = <<>> THEN s
  ELSE IF IsSpace(Head(s)) THEN TrimStart(Tail(s)) ELSE s

RECURSIVE TrimEnd(_)
TrimEnd(s) ==
  IF s = <<>> THEN s
  ELSE IF IsSpace(s[Len(s)]) THEN TrimEnd(SubSeq(s, 1, Len(s) - 1)) ELSE s

trim(s) == TrimEnd(TrimStart(s))

UpperChar(c) ==
  CASE c = "a" -> "A"
    [] c = "b" -> "B"
    [] OTHER -> c

toUpperCase(s) == [i \in 1..Len(s) |-> UpperChar(s[i])]

normalizeFlatId(x) == toUpperCase(trim(StringOrEmpty(x)))

\* ---- inputs ----
\* flat ids as they arrive on the wire (msg.flat_id, msg.targetFlat)
RawIds ==
  { NULL, <<"A">>, <<" ", "a">>, <<"b", " ">> }

\* getIP(req): the address a connection comes from; the first two connections
\* share one address (two devices behind one router), later ones have another
getIP(ws) == IF ws <= 2 THEN "10.0.0.1" ELSE "10.0.0.2"

\* a level on the wire: a number (in tenths) or something Number() maps to NaN
Num(v) == [nan |-> FALSE, tenths |-> v]

NaN == [nan |-> TRUE, tenths |-> 0]

\* broadcast:status frames
StatusMsgs ==
  { [micOn |-> TRUE, sysOn |-> FALSE, ptt |-> FALSE, speaking |-> TRUE,
     micLevel |-> Num(5)],
    [micOn |-> TRUE, sysOn |-> TRUE, ptt |-> TRUE, speaking |-> FALSE,
     micLevel |-> Num(20)] }

DefaultAudio ==
  [micOn |-> FALSE, sysOn |-> FALSE, ptt |-> FALSE, speaking |-> FALSE,
   micLevel |-> Num(0)]

\* ---- state ----
VARIABLES
  clients,   \* live.clients: ws -> [flat_id, ip, role, listeningTo]
  stations,  \* live.stations: flat id -> [ip, startedAt, listeners, audio]
  opened,    \* the connections accepted so far (a ws object is never reused)
  now,       \* Date.now()
  out,       \* the frames safeSend wrote while handling the last event
  creator,   \* history: the ws whose broadcast:start inserted each station
  last       \* history: the last event handled and the branch it took

\* the heartbeat of the presence connections
VARIABLES
  isAlive,     \* ws.isAlive of each open presence ws
  hb,          \* the presence ws whose setInterval heartbeat is running
  terminated,  \* the presence ws the heartbeat terminated, close not yet handled
  ticks        \* history: the heartbeat ticks each presence ws has seen

hbVars == <<isAlive, hb, terminated, ticks>>

\* the signaling plane
VARIABLES
  signalClients,        \* signalClients: ws -> [id, flat_id, ip, role, listeningTo]
  stationBroadcasterWS, \* stationBroadcasterWS: flat id -> ws
  sigOpened,            \* the signaling connections accepted so far
  sigClosing,           \* the signaling ws on which ws.close(1008) was called
  sigIsAlive,           \* ws.isAlive of each open signaling ws
  hb2,                  \* the signaling ws whose heartbeat is running
  sigTerminated,        \* the signaling ws the heartbeat terminated
  sigTicks              \* history: the heartbeat ticks each signaling ws has seen

sigVars ==
  <<signalClients, stationBroadcasterWS, sigOpened, sigClosing, sigIsAlive,
    hb2, sigTerminated, sigTicks>>

\* the peers: what each connection's browser does, fixed for a behaviour
VARIABLES
  responsive,     \* the presence ws whose peer answers a ping with a pong
  sigResponsive,  \* the signaling ws whose peer answers a ping with a pong
  session,        \* presence ws -> the flat id in the upgrade request's session
  sigSession      \* signaling ws -> the flat id in the upgrade request's session

envVars == <<responsive, sigResponsive, session, sigSession>>

\* the identity store, as loginFlat sees it
VARIABLES
  flatRow,      \* the row of table flats that the login's SELECT returns
  loginArgs,    \* the arguments of the loginFlat call
  loginResult   \* what loginFlat returned

\* the other tables, the connection pool and the calls under way
VARIABLES
  requests,     \* table flat_requests: row id -> [flat_id, name, status, created_at]
  codes,        \* table setup_codes of the flat: row id -> [code_hash, expires_at, used_at, created_at]
  pool,         \* pool client -> the transaction open on it and its writes
  calls,        \* async call -> where it is suspended and its locals
  okBy,         \* history: the setup calls made, the successes per code row
  sessionStore, \* table user_sessions: session id -> the session's data
  revoked       \* history: the session ids logged out and not logged in since

dbRest == <<requests, codes, pool, calls, okBy, sessionStore, revoked>>

dbVars == <<flatRow, loginArgs, loginResult, dbRest>>

vars ==
  <<clients, stations, opened, now, out, creator, last, hbVars, sigVars,
    envVars, dbVars>>

\* an entry of the history variable last: the frame or event handled (type),
\* the connection it came from (ws), the branch the handler took (res), the
\* clients the handler's listener loop reset (reset), and for a broadcast:stop
\* the branch of a broadcast:start of the same connection handled just before
\* it (prev, "none" when the event before was something else)
Event(type, ws, res, reset) ==
  [type |-> type, ws |-> ws, res |-> res, reset |-> reset, prev |-> "none"]

\* ---- Map / Set helpers ----
MapSet(m, k, v) == [x \in DOMAIN m \cup {k} |-> IF x = k THEN v ELSE m[x]]

MapDelete(m, k) == [x \in DOMAIN m \ {k} |-> m[x]]

\* live.stations.get(key)?.listeners.delete(ws)
ListenersDelete(st, key, ws) ==
  IF key \in DOMAIN st
  THEN [st EXCEPT ![key].listeners = @ \ {ws}]
  ELSE st

\* mutant of ResetListeners: the loop forgets lc.role = "idle"
ResetListenersKeepRole(cl, socks) ==
  [w \in DOMAIN cl |->
     IF w \in socks THEN [cl[w] EXCEPT !.listeningTo = NULL] ELSE cl[w]]

\* mutant of ResetListeners: the loop forgets lc.listeningTo = null
ResetListenersKeepTarget(cl, socks) ==
  [w \in DOMAIN cl |->
     IF w \in socks THEN [cl[w] EXCEPT !.role = "idle"] ELSE cl[w]]

\* for (const sock of st.listeners) { lc = live.clients.get(sock);
\*   if (lc) { lc.role = "idle"; lc.listeningTo = null } }
ResetListeners(cl, socks) ==
  [w \in DOMAIN cl |->
     IF w \in socks
     THEN [cl[w] EXCEPT !.role = "idle", !.listeningTo = NULL]
     ELSE cl[w]]

\* the listener set of station key, empty when there is no such station
ListenersOf(st, key) ==
  IF key \in DOMAIN st THEN st[key].listeners ELSE {}

\* the registry and the heartbeats after boot: no connection yet
PresenceInit ==
  /\ clients = <<>>
  /\ stations = <<>>
  /\ opened = {}
  /\ now = 0
  /\ out = {}
  /\ creator = <<>>
  /\ last = Event("none", 0, "none", {})
  /\ isAlive = <<>>
  /\ hb = {}
  /\ terminated = {}
  /\ ticks = [ws \in Conns |-> 0]

\* the signaling maps after boot
SignalInit ==
  /\ signalClients = <<>>
  /\ stationBroadcasterWS = <<>>
  /\ sigOpened = {}
  /\ sigClosing = {}
  /\ sigIsAlive = <<>>
  /\ hb2 = {}
  /\ sigTerminated = {}
  /\ sigTicks = [ws \in SigConns |-> 0]

\* peers that answer every ping and come without a session
QuietPeers ==
  /\ responsive = Conns
  /\ sigResponsive = SigConns
  /\ session = [ws \in Conns |-> NULL]
  /\ sigSession = [ws \in SigConns |-> NULL]

\* flatRes.rows[0] of an empty result; no call made; nothing returned
NoRow == [flat_id |-> NULL]
NoArgs == [flat_id |-> NULL, pin4 |-> NULL, password |-> NULL, now |-> 0]
NoResult == [ok |-> FALSE, error |-> "none"]

\* a pool client with no transaction open
\* the setup calls made so far: how many, the successes per setup_codes row,
\* the codes that succeeded; the flats loginFlat returned ok for
NoSetups == [calls |-> 0, rows |-> <<>>, texts |-> {}, flats |-> {}]
NoTx == [open |-> FALSE, flat |-> <<>>, used |-> <<>>, sess |-> <<>>]
\* an async call slot with no call under way
Idle == [pc |-> "idle"]

\* empty tables, an idle pool, no call under way, no session
NoCalls ==
  /\ requests = <<>>
  /\ codes = <<>>
  /\ pool = [c \in PoolClients |-> NoTx]
  /\ calls = [p \in Procs |-> Idle]
  /\ okBy = NoSetups
  /\ sessionStore = <<>>
  /\ revoked = {}

\* no login under way
NoLogin ==
  /\ flatRow = NoRow
  /\ loginArgs = NoArgs
  /\ loginResult = NoResult
  /\ NoCalls

Init ==
  /\ PresenceInit
  /\ SignalInit
  /\ QuietPeers
  /\ NoLogin

\* wssPresence.on("connection")
Connect(ws) ==
  /\ ws = Cardinality(opened) + 1
  /\ opened' = opened \cup {ws}
  /\ clients' = MapSet(clients, ws,
       [flat_id |-> NULL, ip |-> getIP(ws), role |-> "idle",
        listeningTo |-> NULL])
  /\ isAlive' = MapSet(isAlive, ws, TRUE)
  /\ hb' = hb \cup {ws}
  /\ out' = {}
  /\ last' = Event("connection", ws, "ok", {})
  /\ UNCHANGED <<stations, now, creator, terminated, ticks>>
  /\ UNCHANGED <<sigVars, envVars, dbVars>>

\* the wall clock advances
Tick ==
  /\ now < MaxNow
  /\ now' = now + 1
  /\ out' = {}
  /\ last' = Event("tick", 0, "ok", {})
  /\ UNCHANGED <<clients, stations, opened, creator>>
  /\ UNCHANGED <<hbVars, sigVars, envVars, dbVars>>

\* a frame of presence connection ws can arrive: the connection is open and
\* its socket was not destroyed by ws.terminate()
Receiving(ws) == ws \in DOMAIN clients /\ ws \notin terminated

\* what no presence frame handler touches
NotPresence == <<hbVars, sigVars, envVars, dbVars>>

\* ws.on("message"): identify
Identify(ws, raw) ==
  /\ Receiving(ws)
  /\ UNCHANGED NotPresence
  /\ clients' = [clients EXCEPT ![ws].flat_id = normalizeFlatId(raw)]
  /\ out' = {}
  /\ last' = Event("identify", ws, "ok", {})
  /\ UNCHANGED <<stations, opened, now, creator>>

\* the station record broadcast:start inserts
NewStation(client, t) ==
  [ip |-> client.ip, startedAt |-> t, listeners |-> {}, audio |-> DefaultAudio]

\* broadcast:start, past both early returns: the sender leaves the station it
\* listened to, becomes broadcaster and its station is inserted
StartAccepted(ws) ==
  LET client == clients[ws]
      st1 == IF Truthy(client.listeningTo)
             THEN ListenersDelete(stations, client.listeningTo, ws)
             ELSE stations
  IN /\ clients' = [clients EXCEPT
                      ![ws].listeningTo =
                         IF Truthy(client.listeningTo) THEN NULL ELSE @,
                      ![ws].role = "broadcaster"]
     /\ stations' = MapSet(st1, client.flat_id, NewStation(client, now))
     /\ creator' = MapSet(creator, client.flat_id, ws)
     /\ out' = {}
     /\ last' = Event("broadcast:start", ws, "ok", {})

\* safeSend(ws, { type: "broadcast:denied", reason: "ALREADY_BROADCASTING" })
Denied(ws) ==
  [to |-> ws, type |-> "broadcast:denied", reason |-> "ALREADY_BROADCASTING"]

\* mutant of StartDenied: the denial is sent but the station is inserted anew
StartDeniedRestart(ws) ==
  /\ out' = {Denied(ws)}
  /\ last' = Event("broadcast:start", ws, "denied", {})
  /\ stations' = [stations EXCEPT ![clients[ws].flat_id] =
                    [ip |-> clients[ws].ip, startedAt |-> now,
                     listeners |-> {}, audio |-> DefaultAudio]]
  /\ UNCHANGED <<clients, creator>>

\* broadcast:start when a station with the sender's flat id exists
StartDenied(ws) ==
  /\ out' = {Denied(ws)}
  /\ last' = Event("broadcast:start", ws, "denied", {})
  /\ UNCHANGED <<clients, stations, creator>>

\* a frame that returns before it touches anything; why names the early return
Dropped(type, ws, why) ==
  /\ out' = {}
  /\ last' = Event(type, ws, why, {})
  /\ UNCHANGED <<clients, stations, creator>>

\* ws.on("message"): broadcast:start
BroadcastStart(ws) ==
  /\ Receiving(ws)
  /\ UNCHANGED NotPresence
  /\ IF Falsy(clients[ws].flat_id) THEN Dropped("broadcast:start", ws, "unidentified")
     ELSE IF clients[ws].flat_id \in DOMAIN stations THEN StartDenied(ws)
     ELSE StartAccepted(ws)
  /\ UNCHANGED <<opened, now>>

\* mutant of StopEffect: live.stations.delete(client.flat_id) is missing
StopEffectKeepStation(ws) ==
  LET client == clients[ws]
      socks == ListenersOf(stations, client.flat_id)
  IN /\ clients' = [ResetListeners(clients, socks) EXCEPT ![ws].role = "idle"]
     /\ UNCHANGED <<stations, creator>>
     /\ out' = {}
     /\ last' = [Event("broadcast:stop", ws, "ok", socks \cap DOMAIN clients)
                 EXCEPT !.prev =
                   IF last.type = "broadcast:start" /\ last.ws = ws
                   THEN last.res ELSE "none"]

\* broadcast:stop, past the early return: the listeners of the sender's flat's
\* station are reset, the station is deleted, the sender becomes idle
StopEffect(ws) ==
  LET client == clients[ws]
      socks == ListenersOf(stations, client.flat_id)
  IN /\ clients' = [ResetListeners(clients, socks) EXCEPT ![ws].role = "idle"]
     /\ stations' = MapDelete(stations, client.flat_id)
     /\ creator' = MapDelete(creator, client.flat_id)
     /\ out' = {}
     /\ last' = [Event("broadcast:stop", ws,
                       IF client.flat_id \in DOMAIN stations
                       THEN "deleted" ELSE "ok",
                       socks \cap DOMAIN clients)
                 EXCEPT !.prev =
                   IF last.type = "broadcast:start" /\ last.ws = ws
                   THEN last.res ELSE "none"]

\* ws.on("message"): broadcast:stop
BroadcastStop(ws) ==
  /\ Receiving(ws)
  /\ UNCHANGED NotPresence
  /\ IF Falsy(clients[ws].flat_id) THEN Dropped("broadcast:stop", ws, "unidentified")
     ELSE StopEffect(ws)
  /\ UNCHANGED <<opened, now>>

\* Number(msg.micLevel || 0); the level 0 is falsy and so is replaced by 0
NumberOrZero(level) ==
  IF ~level.nan /\ level.tenths = 0 THEN Num(0) ELSE level

\* the audio record broadcast:status stores
StatusAudio(msg) ==
  [micOn |-> msg.micOn, sysOn |-> msg.sysOn, ptt |-> msg.ptt,
   speaking |-> msg.speaking, micLevel |-> NumberOrZero(msg.micLevel)]

\* ws.on("message"): broadcast:status
BroadcastStatus(ws, msg) ==
  /\ Receiving(ws)
  /\ UNCHANGED NotPresence
  /\ IF Falsy(clients[ws].flat_id)
     THEN Dropped("broadcast:status", ws, "unidentified")
     ELSE IF clients[ws].flat_id \notin DOMAIN stations
     THEN Dropped("broadcast:status", ws, "no_station")
     ELSE /\ stations' = [stations EXCEPT
                            ![clients[ws].flat_id].audio = StatusAudio(msg)]
          /\ out' = {}
          /\ last' = Event("broadcast:status", ws, "ok", {})
          /\ UNCHANGED <<clients, creator>>
  /\ UNCHANGED <<opened, now>>

\* listen:start that leaves the connection in the old station's set
ListenAcceptedKeepOld(ws, target) ==
  /\ clients' = [clients EXCEPT ![ws].role = "listener",
                                ![ws].listeningTo = target]
  /\ stations' = [stations EXCEPT ![target].listeners = @ \cup {ws}]
  /\ out' = {}
  /\ last' = Event("listen:start", ws, "ok", {})
  /\ UNCHANGED creator

\* listen:start, past both early returns
ListenAccepted(ws, target) ==
  LET client == clients[ws]
      st1 == IF Truthy(client.listeningTo) /\ client.listeningTo # target
             THEN ListenersDelete(stations, client.listeningTo, ws)
             ELSE stations
  IN /\ clients' = [clients EXCEPT ![ws].role = "listener",
                                   ![ws].listeningTo = target]
     /\ stations' = [st1 EXCEPT ![target].listeners = @ \cup {ws}]
     /\ out' = {}
     /\ last' = Event("listen:start", ws, "ok", {})
     /\ UNCHANGED creator

\* listen:start without the return for a broadcasting sender
ListenStartAnyRole(ws, raw) ==
  /\ Receiving(ws)
  /\ UNCHANGED NotPresence
  /\ LET target == normalizeFlatId(raw)
     IN IF target \notin DOMAIN stations
        THEN Dropped("listen:start", ws, "no_station")
        ELSE ListenAccepted(ws, target)
  /\ UNCHANGED <<opened, now>>

\* ws.on("message"): listen:start
ListenStart(ws, raw) ==
  /\ Receiving(ws)
  /\ UNCHANGED NotPresence
  /\ LET target == normalizeFlatId(raw)
     IN IF target \notin DOMAIN stations
        THEN Dropped("listen:start", ws, "no_station")
        ELSE IF clients[ws].role = "broadcaster"
        THEN Dropped("listen:start", ws, "is_broadcaster")
        ELSE ListenAccepted(ws, target)
  /\ UNCHANGED <<opened, now>>

\* listen:stop that clears the client's target and leaves the listener set
ListenStopKeepMember(ws) ==
  /\ Receiving(ws)
  /\ UNCHANGED NotPresence
  /\ clients' = [clients EXCEPT ![ws].role = "idle",
                                ![ws].listeningTo = NULL]
  /\ out' = {}
  /\ last' = Event("listen:stop", ws, "ok", {})
  /\ UNCHANGED <<stations, opened, now, creator>>

\* ws.on("message"): listen:stop
ListenStop(ws) ==
  /\ Receiving(ws)
  /\ UNCHANGED NotPresence
  /\ stations' = IF Truthy(clients[ws].listeningTo)
                 THEN ListenersDelete(stations, clients[ws].listeningTo, ws)
                 ELSE stations
  /\ clients' = [clients EXCEPT ![ws].role = "idle",
                                ![ws].listeningTo = NULL]
  /\ out' = {}
  /\ last' = Event("listen:stop", ws, "ok", {})
  /\ UNCHANGED <<opened, now, creator>>

\* the station the close handler deletes: the closing client's flat's station
\* when the client is a broadcaster with a flat id
ClosedStation(c) ==
  IF c.role = "broadcaster" /\ Truthy(c.flat_id) THEN {c.flat_id} ELSE {}

\* ws.on("close"), also run when the heartbeat terminates the socket
Close(ws) ==
  /\ ws \in DOMAIN clients
  /\ LET c == clients[ws]
         st1 == IF Truthy(c.listeningTo)
                THEN ListenersDelete(stations, c.listeningTo, ws)
                ELSE stations
         gone == ClosedStation(c)
         socks == UNION {ListenersOf(st1, f) : f \in gone}
     IN /\ clients' = MapDelete(ResetListeners(clients, socks), ws)
        /\ stations' = [f \in DOMAIN st1 \ gone |-> st1[f]]
        /\ creator' = [f \in DOMAIN creator \ gone |-> creator[f]]
        /\ last' = Event("close", ws,
                         IF gone \cap DOMAIN stations # {}
                         THEN "deleted" ELSE "ok",
                         (socks \cap DOMAIN clients) \ {ws})
  /\ isAlive' = MapDelete(isAlive, ws)
  /\ hb' = hb \ {ws}
  /\ terminated' = terminated \ {ws}
  /\ out' = {}
  /\ UNCHANGED <<opened, now, ticks>>
  /\ UNCHANGED <<sigVars, envVars, dbVars>>

\* the presence plane: who is idle, broadcasting or listening
Next ==
  \/ \E ws \in Conns : Connect(ws)
  \/ \E ws \in Conns, raw \in RawIds : Identify(ws, raw)
  \/ \E ws \in Conns : BroadcastStart(ws)
  \/ \E ws \in Conns : BroadcastStop(ws)
  \/ \E ws \in Conns, raw \in RawIds : ListenStart(ws, raw)
  \/ \E ws \in Conns : ListenStop(ws)
  \/ \E ws \in Conns : Close(ws)

Spec == Init /\ [][Next]_vars

\* the presence plane with the station records' contents: the clock advances
\* and broadcast:status frames arrive, on fewer connections
NextTelemetry ==
  \/ \E ws \in TelemetryConns : Connect(ws)
  \/ \E ws \in TelemetryConns, raw \in RawIds : Identify(ws, raw)
  \/ \E ws \in TelemetryConns : BroadcastStart(ws)
  \/ \E ws \in TelemetryConns : BroadcastStop(ws)
  \/ \E ws \in TelemetryConns, msg \in StatusMsgs : BroadcastStatus(ws, msg)
  \/ \E ws \in TelemetryConns, raw \in RawIds : ListenStart(ws, raw)
  \/ \E ws \in TelemetryConns : ListenStop(ws)
  \/ \E ws \in TelemetryConns : Close(ws)
  \/ Tick

SpecTelemetry == Init /\ [][NextTelemetry]_vars

\* ---- the claims ----
Broadcasters == {ws \in DOMAIN clients : clients[ws].role = "broadcaster"}

Listeners == {ws \in DOMAIN clients : clients[ws].role = "listener"}

\* C1: for each flat id at most one connected presence client has
\* role=broadcaster with that flat id.
C1_SingleBroadcasterPerFlat ==
  \A a \in Broadcasters, b \in Broadcasters :
    (Truthy(clients[a].flat_id) /\ clients[a].flat_id = clients[b].flat_id)
      => a = b

\* C2: every presence client whose role is broadcaster has a station in the
\* registry keyed by its current flat id.
C2_BroadcasterHasStation ==
  \A ws \in Broadcasters : clients[ws].flat_id \in DOMAIN stations

\* C3: every presence client with role=listener has a non-null listeningTo
\* that is a key of the station registry, and is a member of that station's
\* listener set.
C3_ListenerIsMember ==
  \A ws \in Listeners :
    /\ clients[ws].listeningTo # NULL
    /\ clients[ws].listeningTo \in DOMAIN stations
    /\ ws \in stations[clients[ws].listeningTo].listeners

\* C3 witness: a client is still a listener of one station right after another
\* station was deleted under its listeners.
C3_Witness ==
  /\ last.res = "deleted"
  /\ last.reset # {}
  /\ Listeners # {}

\* C4: every connection that is a member of some station's listener set
\* belongs to a client whose role is listener.
C4_MemberIsListener ==
  \A f \in DOMAIN stations : stations[f].listeners \subseteq Listeners

\* C5: a presence client's listeningTo is non-null only if its role is
\* listener.
C5_TargetOnlyForListener ==
  \A ws \in DOMAIN clients :
    clients[ws].listeningTo # NULL => clients[ws].role = "listener"

\* C6: when the connection whose broadcast:start created station F closes
\* while F is in the registry, F is not in the registry once the close is
\* handled.
C6_CreatorCloseDeletesStation ==
  [][\A f \in DOMAIN stations :
       (creator[f] \in DOMAIN clients /\ creator[f] \notin DOMAIN clients')
         => f \notin DOMAIN stations']_vars

\* C7: whenever a station is deleted, every surviving client that was in its
\* listener set is idle with listeningTo null afterwards, and no surviving
\* client's listeningTo names the deleted station.
C7_DeletionResetsListeners ==
  [][\A f \in DOMAIN stations \ DOMAIN stations' :
       /\ \A ws \in stations[f].listeners \cap DOMAIN clients' :
            /\ clients'[ws].role = "idle"
            /\ clients'[ws].listeningTo = NULL
       /\ \A ws \in DOMAIN clients' : clients'[ws].listeningTo # f]_vars

\* C7 witness: a station has just been deleted and two surviving clients that
\* listened to it were reset.
C7_Witness ==
  /\ last.res = "deleted"
  /\ Cardinality(last.reset) >= 2
  /\ last.reset \subseteq DOMAIN clients

\* C8: for an identified client, broadcast:start immediately followed by
\* broadcast:stop on the same connection leaves the client idle and no station
\* in the registry for its flat id.
C8_StartThenStop ==
  (last.type = "broadcast:stop" /\ last.prev \in {"ok", "denied"})
    => /\ clients[last.ws].role = "idle"
       /\ clients[last.ws].flat_id \notin DOMAIN stations

\* C8 witness: a broadcast:stop was handled right after an accepted
\* broadcast:start of the same connection.
C8_Witness ==
  /\ last.type = "broadcast:stop"
  /\ last.prev = "ok"
  /\ Truthy(clients[last.ws].flat_id)

\* C9: a broadcast:start of a client whose flat id has a station is answered
\* with broadcast:denied / ALREADY_BROADCASTING and changes neither the station
\* registry nor any client.
C9_DeniedStartChangesNothing ==
  [][\A ws \in DOMAIN clients :
       (BroadcastStart(ws) /\ clients[ws].flat_id \in DOMAIN stations)
         => /\ out' = {Denied(ws)}
            /\ stations' = stations
            /\ clients' = clients]_vars

\* C9 witness: a broadcast:start was denied while the station of that flat had
\* a listener and audio other than the defaults, started before the clock's
\* current reading.
C9_Witness ==
  \E ws \in DOMAIN clients :
    /\ Denied(ws) \in out
    /\ clients[ws].flat_id \in DOMAIN stations
    /\ stations[clients[ws].flat_id].listeners # {}
    /\ stations[clients[ws].flat_id].audio # DefaultAudio
    /\ stations[clients[ws].flat_id].startedAt < now

\* a station operation of connection ws is handled
StationOp(ws) ==
  \/ BroadcastStart(ws)
  \/ BroadcastStop(ws)
  \/ \E msg \in StatusMsgs : BroadcastStatus(ws, msg)
  \/ \E raw \in RawIds : ListenStart(ws, raw)
  \/ ListenStop(ws)

\* C10: a station operation sent by a connection that has not yet sent
\* identify changes neither the station registry nor any client's role or
\* listeningTo.
C10_UnidentifiedOpDropped ==
  [][\A ws \in DOMAIN clients :
       (clients[ws].flat_id = NULL /\ StationOp(ws))
         => /\ stations' = stations
            /\ \A w \in DOMAIN clients :
                 /\ clients'[w].role = clients[w].role
                 /\ clients'[w].listeningTo = clients[w].listeningTo]_vars

(***************************************************************************)
(* The signaling plane: wssSignal.on("connection") and its handlers.       *)
(***************************************************************************)

\* makeId(): 8 random bytes, taken to be different for different connections
makeId(ws) == <<"id", ws>>

\* no connection: what Map.get and Array.find give when nothing is found
NoWs == 0

\* the flat ids and roles that signaling frames carry
SigRawIds == { <<" ", "a">>, <<"b", " ">> }
\* msg.targetFlat of a listen:join
JoinRawIds == { <<"A">> }
\* msg.broadcasterFlat of a webrtc:ice, which may be missing
IceRawIds == SigRawIds \cup { NULL }
SigRoles == { "broadcaster", "listener" }
\* msg.listenerId of a webrtc frame: the id of some signaling connection,
\* connected or not, or none
ListenerIds == { makeId(ws) : ws \in SigConns } \cup { NULL }
\* the presence input that puts a station behind a signaling flat
StationRawIds == { <<"A">> }


\* ws.readyState === 1: the connection is open, and the server has called
\* neither ws.close() nor ws.terminate() on it
SigReady(ws) ==
  /\ ws \in DOMAIN signalClients
  /\ ws \notin sigClosing
  /\ ws \notin sigTerminated

\* a frame of signaling connection ws can arrive: after ws.close() the peer's
\* frames are still read until the closing handshake ends, after
\* ws.terminate() the socket is destroyed
SigReceiving(ws) == ws \in DOMAIN signalClients /\ ws \notin sigTerminated

\* safeSend(ws, obj) with frame.to = ws: the frames written, none when ws is
\* not open
safeSend(frame) == IF SigReady(frame.to) THEN {frame} ELSE {}

\* [...signalClients.entries()].find(([w, c]) => c.id === id)?.[0]
FindById(id) ==
  IF \E w \in DOMAIN signalClients : signalClients[w].id = id
  THEN CHOOSE w \in DOMAIN signalClients : signalClients[w].id = id
  ELSE NoWs

\* stationBroadcasterWS.get(flat)
IndexGet(flat) ==
  IF flat \in DOMAIN stationBroadcasterWS
  THEN stationBroadcasterWS[flat] ELSE NoWs

\* what a signaling frame handler leaves alone: the presence registry, the
\* heartbeats, the set of accepted connections
SigFrameUnchanged ==
  UNCHANGED <<clients, stations, opened, now, creator, hbVars, sigOpened,
              sigIsAlive, hb2, sigTerminated, sigTicks, envVars, dbVars>>

\* wssSignal.on("connection")
SigConnect(ws) ==
  /\ ws = Cardinality(sigOpened) + 1
  /\ sigOpened' = sigOpened \cup {ws}
  /\ signalClients' =
       MapSet(signalClients, ws,
              [id |-> makeId(ws), flat_id |-> NULL, ip |-> getIP(ws),
               role |-> "unknown", listeningTo |-> NULL])
  /\ sigIsAlive' = MapSet(sigIsAlive, ws, TRUE)
  /\ hb2' = hb2 \cup {ws}
  /\ out' = {[to |-> ws, type |-> "hello", id |-> makeId(ws)]}
  /\ last' = Event("signal:connection", ws, "ok", {})
  /\ UNCHANGED <<clients, stations, opened, now, creator, hbVars>>
  /\ UNCHANGED <<stationBroadcasterWS, sigClosing, sigTerminated, sigTicks>>
  /\ UNCHANGED <<envVars, dbVars>>

\* identify, role broadcaster, no entry for the flat: register this connection
SigRegisterOverwrite(ws, flat) ==
  /\ stationBroadcasterWS' = MapSet(stationBroadcasterWS, flat, ws)
  /\ out' = {}
  /\ last' = Event("signal:identify", ws, "registered", {})
  /\ UNCHANGED sigClosing

SigRegister(ws, flat) ==
  IF flat \notin DOMAIN stationBroadcasterWS
  THEN /\ stationBroadcasterWS' = MapSet(stationBroadcasterWS, flat, ws)
       /\ out' = {}
       /\ last' = Event("signal:identify", ws, "registered", {})
       /\ UNCHANGED sigClosing
  ELSE /\ out' = safeSend([to |-> ws, type |-> "broadcast:denied",
                           reason |-> "ALREADY_BROADCASTING"])
       /\ sigClosing' = sigClosing \cup {ws}
       /\ last' = Event("signal:identify", ws, "denied", {})
       /\ UNCHANGED stationBroadcasterWS

\* ws.on("message"): identify
SigIdentify(ws, raw, role) ==
  /\ SigReceiving(ws)
  /\ LET flat == normalizeFlatId(raw)
         r == IF role = "broadcaster" THEN "broadcaster" ELSE "listener"
     IN /\ signalClients' =
             [signalClients EXCEPT ![ws].flat_id = flat, ![ws].role = r]
        /\ IF r = "broadcaster"
           THEN SigRegister(ws, flat)
           ELSE /\ out' = {}
                /\ last' = Event("signal:identify", ws, "listener", {})
                /\ UNCHANGED <<stationBroadcasterWS, sigClosing>>
  /\ SigFrameUnchanged

\* ws.on("message"): listen:join; the station is looked up first, then the
\* broadcaster's signaling connection
ListenJoinOutcomeIndexFirst(ws, targetFlat) ==
  IF IndexGet(targetFlat) = NoWs
  THEN "BROADCASTER_SIGNAL_NOT_READY"
  ELSE IF targetFlat \notin DOMAIN stations
  THEN "STATION_OFFLINE"
  ELSE "ok"

ListenJoinOutcome(ws, targetFlat) ==
  IF targetFlat \notin DOMAIN stations
  THEN "STATION_OFFLINE"
  ELSE IF IndexGet(targetFlat) = NoWs
  THEN "BROADCASTER_SIGNAL_NOT_READY"
  ELSE "ok"

ListenJoinFrames(ws, targetFlat) ==
  LET res == ListenJoinOutcome(ws, targetFlat)
  IN IF res = "ok"
     THEN safeSend([to |-> IndexGet(targetFlat), type |-> "listener:join",
                    listenerId |-> signalClients[ws].id])
          \cup safeSend([to |-> ws, type |-> "listen:ok",
                         targetFlat |-> targetFlat])
     ELSE safeSend([to |-> ws, type |-> "listen:error", error |-> res])

\* listen:join that looks the target up as it came on the wire
ListenJoinRaw(ws, raw) ==
  /\ SigReceiving(ws)
  /\ LET targetFlat == StringOrEmpty(raw)
     IN /\ signalClients' =
             [signalClients EXCEPT ![ws].role = "listener",
                                   ![ws].listeningTo = targetFlat]
        /\ out' = ListenJoinFrames(ws, targetFlat)
        /\ last' = Event("listen:join", ws,
                         ListenJoinOutcome(ws, targetFlat), {})
  /\ UNCHANGED <<stationBroadcasterWS, sigClosing>>
  /\ SigFrameUnchanged

ListenJoin(ws, raw) ==
  /\ SigReceiving(ws)
  /\ LET targetFlat == normalizeFlatId(raw)
     IN /\ signalClients' =
             [signalClients EXCEPT ![ws].role = "listener",
                                   ![ws].listeningTo = targetFlat]
        /\ out' = ListenJoinFrames(ws, targetFlat)
        /\ last' = Event("listen:join", ws,
                         ListenJoinOutcome(ws, targetFlat), {})
  /\ UNCHANGED <<stationBroadcasterWS, sigClosing>>
  /\ SigFrameUnchanged

\* ws.on("message"): listen:leave
ListenLeave(ws) ==
  /\ SigReceiving(ws)
  /\ LET sc == signalClients[ws]
         bws == IndexGet(sc.listeningTo)
     IN IF Falsy(sc.listeningTo)
        THEN /\ out' = {}
             /\ last' = Event("listen:leave", ws, "dropped", {})
             /\ UNCHANGED signalClients
        ELSE /\ signalClients' =
                  [signalClients EXCEPT ![ws].listeningTo = NULL]
             /\ out' = IF bws # NoWs
                       THEN safeSend([to |-> bws, type |-> "listener:leave",
                                      listenerId |-> sc.id])
                       ELSE {}
             /\ last' = Event("listen:leave", ws, "ok", {})
  /\ UNCHANGED <<stationBroadcasterWS, sigClosing>>
  /\ SigFrameUnchanged

\* ws.on("message"): webrtc:offer
WebrtcOffer(ws, listenerId) ==
  /\ SigReceiving(ws)
  /\ LET listenerWs == FindById(listenerId)
     IN /\ out' = IF listenerWs = NoWs THEN {}
                  ELSE safeSend([to |-> listenerWs, type |-> "webrtc:offer",
                                 from |-> signalClients[ws].id])
        /\ last' = Event("webrtc:offer", ws,
                         IF listenerWs = NoWs THEN "dropped" ELSE "ok", {})
  /\ UNCHANGED <<signalClients, stationBroadcasterWS, sigClosing>>
  /\ SigFrameUnchanged

\* ws.on("message"): webrtc:answer
WebrtcAnswer(ws, raw) ==
  /\ SigReceiving(ws)
  /\ LET bws == IndexGet(normalizeFlatId(raw))
     IN /\ out' = IF bws = NoWs THEN {}
                  ELSE safeSend([to |-> bws, type |-> "webrtc:answer",
                                 listenerId |-> signalClients[ws].id])
        /\ last' = Event("webrtc:answer", ws,
                         IF bws = NoWs THEN "dropped" ELSE "ok", {})
  /\ UNCHANGED <<signalClients, stationBroadcasterWS, sigClosing>>
  /\ SigFrameUnchanged

\* ws.on("message"): webrtc:ice; the frames it forwards
WebrtcIceFrames(ws, listenerId, raw) ==
  LET sc == signalClients[ws]
      listenerWs == FindById(listenerId)
      bws == IndexGet(normalizeFlatId(raw))
  IN IF sc.role = "broadcaster" /\ Truthy(listenerId)
     THEN IF listenerWs = NoWs THEN {}
          ELSE safeSend([to |-> listenerWs, type |-> "webrtc:ice",
                         from |-> sc.id])
     ELSE IF sc.role = "listener" /\ Truthy(raw)
     THEN IF bws = NoWs THEN {}
          ELSE safeSend([to |-> bws, type |-> "webrtc:ice",
                         listenerId |-> sc.id])
     ELSE {}

WebrtcIce(ws, listenerId, raw) ==
  /\ SigReceiving(ws)
  /\ out' = WebrtcIceFrames(ws, listenerId, raw)
  /\ last' = Event("webrtc:ice", ws, "ok", {})
  /\ UNCHANGED <<signalClients, stationBroadcasterWS, sigClosing>>
  /\ SigFrameUnchanged

\* ws.on("close"): the index entry goes only when the closing connection is
\* a broadcaster with a flat id and the entry is this connection
SigCloseIndexAnyOwner(c, ws) ==
  IF c.role = "broadcaster" /\ Truthy(c.flat_id)
  THEN MapDelete(stationBroadcasterWS, c.flat_id)
  ELSE stationBroadcasterWS

SigCloseIndex(c, ws) ==
  IF /\ c.role = "broadcaster"
     /\ Truthy(c.flat_id)
     /\ IndexGet(c.flat_id) = ws
  THEN MapDelete(stationBroadcasterWS, c.flat_id)
  ELSE stationBroadcasterWS

\* a signaling close that also deletes the station of the closing flat
SigCloseDeletesStation(ws) ==
  /\ ws \in DOMAIN signalClients
  /\ stations' = MapDelete(stations, signalClients[ws].flat_id)
  /\ stationBroadcasterWS' = SigCloseIndex(signalClients[ws], ws)
  /\ signalClients' = MapDelete(signalClients, ws)
  /\ sigIsAlive' = MapDelete(sigIsAlive, ws)
  /\ hb2' = hb2 \ {ws}
  /\ sigClosing' = sigClosing \ {ws}
  /\ sigTerminated' = sigTerminated \ {ws}
  /\ out' = {}
  /\ last' = Event("signal:close", ws, "ok", {})
  /\ UNCHANGED <<clients, opened, now, creator, hbVars>>
  /\ UNCHANGED <<sigOpened, sigTicks, envVars, dbVars>>

SigClose(ws) ==
  /\ ws \in DOMAIN signalClients
  /\ stationBroadcasterWS' = SigCloseIndex(signalClients[ws], ws)
  /\ signalClients' = MapDelete(signalClients, ws)
  /\ sigIsAlive' = MapDelete(sigIsAlive, ws)
  /\ hb2' = hb2 \ {ws}
  /\ sigClosing' = sigClosing \ {ws}
  /\ sigTerminated' = sigTerminated \ {ws}
  /\ out' = {}
  /\ last' = Event("signal:close", ws,
                   IF IndexGet(signalClients[ws].flat_id) = ws
                   THEN "registered"
                   ELSE IF ws \in sigClosing THEN "1008" ELSE "ok", {})
  /\ UNCHANGED <<clients, stations, opened, now, creator, hbVars>>
  /\ UNCHANGED <<sigOpened, sigTicks, envVars, dbVars>>

\* registration on the signaling plane, next to one presence connection that
\* can put flat A on air
NextSignal ==
  \/ \E ws \in StationConns : Connect(ws)
  \/ \E ws \in StationConns, raw \in StationRawIds : Identify(ws, raw)
  \/ \E ws \in StationConns : BroadcastStart(ws)
  \/ \E ws \in StationConns : BroadcastStop(ws)
  \/ \E ws \in StationConns : Close(ws)
  \/ \E ws \in SigConns : SigConnect(ws)
  \/ \E ws \in SigConns, raw \in SigRawIds, role \in SigRoles :
       SigIdentify(ws, raw, role)
  \/ \E ws \in SigConns, raw \in JoinRawIds : ListenJoin(ws, raw)
  \/ \E ws \in SigConns : ListenLeave(ws)
  \/ \E ws \in SigConns : SigClose(ws)

SpecSignal == Init /\ [][NextSignal]_vars

\* routing of the WebRTC frames between the signaling connections
NextRouting ==
  \/ \E ws \in SigConns : SigConnect(ws)
  \/ \E ws \in SigConns, raw \in SigRawIds, role \in SigRoles :
       SigIdentify(ws, raw, role)
  \/ \E ws \in SigConns, id \in ListenerIds : WebrtcOffer(ws, id)
  \/ \E ws \in SigConns, raw \in SigRawIds : WebrtcAnswer(ws, raw)
  \/ \E ws \in SigConns, id \in ListenerIds, raw \in IceRawIds :
       WebrtcIce(ws, id, raw)
  \/ \E ws \in SigConns : SigClose(ws)

SpecRouting == Init /\ [][NextRouting]_vars

(***************************************************************************)
(* Claims about the signaling plane.                                       *)
(***************************************************************************)

DeniedFrame(ws) ==
  [to |-> ws, type |-> "broadcast:denied", reason |-> "ALREADY_BROADCASTING"]

\* C12, as stated: a signaling identify with role broadcaster for a flat that
\* has an index entry is answered with broadcast:denied/ALREADY_BROADCASTING,
\* the sender is closed with 1008 and the entry keeps its connection; with no
\* entry the sender becomes the entry.
C12_DuplicateIdentifyAnswered ==
  [][\A ws \in SigConns, raw \in SigRawIds :
       SigIdentify(ws, raw, "broadcaster") =>
         LET flat == normalizeFlatId(raw)
         IN IF flat \in DOMAIN stationBroadcasterWS
            THEN /\ DeniedFrame(ws) \in out'
                 /\ ws \in sigClosing'
                 /\ stationBroadcasterWS' = stationBroadcasterWS
            ELSE stationBroadcasterWS' =
                   MapSet(stationBroadcasterWS, flat, ws)]_vars

\* C12, amended: the same, but the denial reaches the sender only when the
\* server has not already begun closing the sender; an identify read from a
\* connection that is being closed is denied without a frame.
C12_DuplicateIdentifyDenied ==
  [][\A ws \in SigConns, raw \in SigRawIds :
       SigIdentify(ws, raw, "broadcaster") =>
         LET flat == normalizeFlatId(raw)
         IN IF flat \in DOMAIN stationBroadcasterWS
            THEN /\ out' = IF ws \in sigClosing THEN {} ELSE {DeniedFrame(ws)}
                 /\ ws \in sigClosing'
                 /\ stationBroadcasterWS' = stationBroadcasterWS
            ELSE stationBroadcasterWS' =
                   MapSet(stationBroadcasterWS, flat, ws)]_vars

\* a duplicate broadcaster was just denied and is being closed, the flat's
\* entry is another connection
C12_Witness ==
  /\ last.type = "signal:identify"
  /\ last.res = "denied"
  /\ DeniedFrame(last.ws) \in out
  /\ last.ws \in sigClosing
  /\ \E f \in DOMAIN stationBroadcasterWS :
       /\ signalClients[last.ws].flat_id = f
       /\ stationBroadcasterWS[f] # last.ws

\* C13: a signal client has role broadcaster iff the index maps its flat id
\* to its connection.
C13_BroadcasterIffIndexed ==
  \A ws \in DOMAIN signalClients :
    signalClients[ws].role = "broadcaster"
      <=> IndexGet(signalClients[ws].flat_id) = ws

\* C14: once a signaling connection's close was handled, no index entry has
\* that connection as its value (every entry is a connection with a record).
C14_NoEntryForClosedConnection ==
  \A f \in DOMAIN stationBroadcasterWS :
    stationBroadcasterWS[f] \in DOMAIN signalClients

\* C15: the close of a signaling connection that is not the index entry of
\* its flat id leaves the index unchanged.
C15_CloseOfUnregisteredKeepsIndex ==
  [][\A ws \in SigConns :
       (SigClose(ws) /\ IndexGet(signalClients[ws].flat_id) # ws)
         => stationBroadcasterWS' = stationBroadcasterWS]_vars

\* a denied duplicate broadcaster has closed and the flat's entry is still
\* the open connection that registered first
C15_Witness ==
  /\ last.type = "signal:close"
  /\ last.res = "1008"
  /\ \E f \in DOMAIN stationBroadcasterWS :
       /\ stationBroadcasterWS[f] # last.ws
       /\ stationBroadcasterWS[f] \in DOMAIN signalClients

\* the frames that carry the outcome of a listen:join to its sender
JoinReply(ws, targetFlat, res) ==
  IF res = "ok"
  THEN [to |-> ws, type |-> "listen:ok", targetFlat |-> targetFlat]
  ELSE [to |-> ws, type |-> "listen:error", error |-> res]

\* the replies to a listen:join among the frames of a step
JoinReplies(frames) ==
  {f \in frames : f.type \in {"listen:ok", "listen:error"}}

\* the outcome a listen:join must have
JoinExpected(targetFlat) ==
  IF targetFlat \notin DOMAIN stations THEN "STATION_OFFLINE"
  ELSE IF targetFlat \notin DOMAIN stationBroadcasterWS
  THEN "BROADCASTER_SIGNAL_NOT_READY"
  ELSE "ok"

\* C16, as stated: a listen:join gets exactly one reply, STATION_OFFLINE
\* without a station, else BROADCASTER_SIGNAL_NOT_READY without an index
\* entry, else listen:ok; in the error cases no other connection gets a
\* frame.
C16_JoinAnsweredOnce ==
  [][\A ws \in SigConns, raw \in JoinRawIds :
       ListenJoin(ws, raw) =>
         LET t == normalizeFlatId(raw)
             res == JoinExpected(t)
         IN /\ JoinReplies(out') = {JoinReply(ws, t, res)}
            /\ res # "ok" => out' = {JoinReply(ws, t, res)}]_vars

\* C16, amended: the same for a sender the server has not begun closing; a
\* sender that is being closed gets no reply, and in the error cases still
\* no connection gets a frame.
C16_JoinOutcome ==
  [][\A ws \in SigConns, raw \in JoinRawIds :
       ListenJoin(ws, raw) =>
         LET t == normalizeFlatId(raw)
             res == JoinExpected(t)
             reply == IF ws \in sigClosing THEN {}
                      ELSE {JoinReply(ws, t, res)}
         IN /\ JoinReplies(out') = reply
            /\ res # "ok" => out' = reply]_vars

\* a join that arrived before the broadcaster's signaling identify: the
\* station is on air, the index has no entry, the sender got the error
C16_Witness ==
  /\ last.type = "listen:join"
  /\ last.res = "BROADCASTER_SIGNAL_NOT_READY"
  /\ \E f \in DOMAIN stations :
       /\ f \notin DOMAIN stationBroadcasterWS
       /\ out = {JoinReply(last.ws, f, "BROADCASTER_SIGNAL_NOT_READY")}

\* C17: whenever listen:ok for a flat is sent, the same step delivered
\* listener:join with the listener's id to the flat's broadcaster connection.
C17_OkOnlyWithListenerJoin ==
  \A f \in out :
    f.type = "listen:ok" =>
      \E g \in out :
        /\ g.type = "listener:join"
        /\ g.to = IndexGet(f.targetFlat)
        /\ g.listenerId = signalClients[f.to].id

\* C18: webrtc:offer and webrtc:ice{listenerId} are forwarded only from a
\* broadcaster, webrtc:answer and webrtc:ice{broadcasterFlat} only from a
\* listener; a frame naming a peer that is not connected forwards nothing.
C18_WrongRoleDropped ==
  [][\A ws \in SigConns :
       /\ \A id \in ListenerIds :
            (WebrtcOffer(ws, id) /\ signalClients[ws].role # "broadcaster")
              => out' = {}
       /\ \A raw \in SigRawIds :
            (WebrtcAnswer(ws, raw) /\ signalClients[ws].role # "listener")
              => out' = {}
       /\ \A id \in ListenerIds, raw \in IceRawIds :
            WebrtcIce(ws, id, raw) =>
              \A f \in out' :
                IF "from" \in DOMAIN f
                THEN signalClients[ws].role = "broadcaster"
                ELSE signalClients[ws].role = "listener"]_vars

(***************************************************************************)
(* The upgrade route and the sessions of the upgrade requests.             *)
(***************************************************************************)

\* req.session?.user?.flat_id of an upgrade request: none, or the canonical
\* flat id that /api/login stored
SessionFlats == { NULL, <<"A">>, <<"B">> }
\* the paths an upgrade request can name
Paths == { "/ws/presence", "/ws/signal", "/app" }
SessionConns == 1..MaxSessionConns

\* the upgrade requests come with any session or none
InitSession ==
  /\ PresenceInit
  /\ SignalInit
  /\ NoLogin
  /\ responsive = Conns
  /\ sigResponsive = SigConns
  /\ session \in [Conns -> SessionFlats]
  /\ sigSession \in [SigConns -> SessionFlats]
  /\ \A ws \in Conns \ SessionConns : session[ws] = NULL
  /\ \A ws \in SigConns \ SessionConns : sigSession[ws] = NULL

\* server.on("upgrade"): the path alone decides; the request's session is
\* not read
Upgrade(pathname, ws) ==
  IF pathname = "/ws/presence" THEN Connect(ws)
  ELSE IF pathname = "/ws/signal" THEN SigConnect(ws)
  ELSE /\ ws = 1
       /\ out' = {}
       /\ last' = Event("upgrade", ws, "destroyed", {})
       /\ UNCHANGED <<clients, stations, opened, now, creator>>
       /\ UNCHANGED <<hbVars, sigVars, envVars, dbVars>>

NextSession ==
  \/ \E pathname \in Paths, ws \in SessionConns : Upgrade(pathname, ws)
  \/ \E ws \in SessionConns, raw \in RawIds : Identify(ws, raw)
  \/ \E ws \in SessionConns : BroadcastStart(ws)
  \/ \E ws \in SessionConns : BroadcastStop(ws)
  \/ \E ws \in SessionConns : Close(ws)
  \/ \E ws \in SessionConns, raw \in SigRawIds, role \in SigRoles :
       SigIdentify(ws, raw, role)
  \/ \E ws \in SessionConns : SigClose(ws)

SpecSession == InitSession /\ [][NextSession]_vars

\* C11: a presence or signal client record exists only for a connection
\* upgraded with a valid session, and a flat id set by identify equals the
\* session's flat id.
C11_ClientBoundToSession ==
  /\ \A ws \in DOMAIN clients :
       /\ session[ws] # NULL
       /\ clients[ws].flat_id # NULL => clients[ws].flat_id = session[ws]
  /\ \A ws \in DOMAIN signalClients :
       /\ sigSession[ws] # NULL
       /\ signalClients[ws].flat_id # NULL
            => signalClients[ws].flat_id = sigSession[ws]

(***************************************************************************)
(* The heartbeats: the setInterval callbacks hb and hb2 and the pong        *)
(* handlers of both channels.                                              *)
(***************************************************************************)

HbConns == 1..MaxHbConns
SigHbConns == 1..MaxSigHbConns
\* the presence connection that broadcasts; the others listen
HbBroadcasters == { 1 }
\* the frames of the heartbeat specification
HbRawIds == { <<"A">> }

\* the tick count of a connection, counted up to MaxTicks
CountTick(t) == IF t < MaxTicks THEN t + 1 ELSE t

\* hb that never terminates: every tick clears the flag and pings
HbTickPingOnly(ws) ==
  /\ ws \in hb
  /\ isAlive' = [isAlive EXCEPT ![ws] = FALSE]
  /\ ticks' = [ticks EXCEPT ![ws] = CountTick(ticks[ws])]
  /\ out' = {}
  /\ last' = Event("hb", ws, "ping", {})
  /\ UNCHANGED <<hb, terminated>>
  /\ UNCHANGED <<clients, stations, opened, now, creator>>
  /\ UNCHANGED <<sigVars, envVars, dbVars>>

\* the callback of hb = setInterval(..., 15000) of a presence ws
HbTick(ws) ==
  /\ ws \in hb
  /\ IF isAlive[ws] = FALSE
     THEN /\ terminated' = terminated \cup {ws}
          /\ hb' = hb \ {ws}
          /\ last' = Event("hb", ws, "terminate", {})
          /\ UNCHANGED isAlive
     ELSE /\ isAlive' = [isAlive EXCEPT ![ws] = FALSE]
          /\ last' = Event("hb", ws, "ping", {})
          /\ UNCHANGED <<hb, terminated>>
  /\ ticks' = [ticks EXCEPT ![ws] = CountTick(ticks[ws])]
  /\ out' = {}
  /\ UNCHANGED <<clients, stations, opened, now, creator>>
  /\ UNCHANGED <<sigVars, envVars, dbVars>>

\* a pong handler that leaves the flag as the ping set it
PongIgnored(ws) ==
  /\ Receiving(ws)
  /\ ws \in responsive
  /\ isAlive[ws] = FALSE
  /\ out' = {}
  /\ last' = Event("pong", ws, "ok", {})
  /\ UNCHANGED <<isAlive, hb, terminated, ticks>>
  /\ UNCHANGED <<clients, stations, opened, now, creator>>
  /\ UNCHANGED <<sigVars, envVars, dbVars>>

\* ws.on("pong") of a presence ws: a responsive peer answers the ping that
\* cleared the flag
Pong(ws) ==
  /\ Receiving(ws)
  /\ ws \in responsive
  /\ isAlive[ws] = FALSE
  /\ isAlive' = [isAlive EXCEPT ![ws] = TRUE]
  /\ out' = {}
  /\ last' = Event("pong", ws, "ok", {})
  /\ UNCHANGED <<hb, terminated, ticks>>
  /\ UNCHANGED <<clients, stations, opened, now, creator>>
  /\ UNCHANGED <<sigVars, envVars, dbVars>>

\* the callback of hb2 = setInterval(..., 15000) of a signaling ws
SigHbTick(ws) ==
  /\ ws \in hb2
  /\ IF sigIsAlive[ws] = FALSE
     THEN /\ sigTerminated' = sigTerminated \cup {ws}
          /\ hb2' = hb2 \ {ws}
          /\ last' = Event("hb2", ws, "terminate", {})
          /\ UNCHANGED sigIsAlive
     ELSE /\ sigIsAlive' = [sigIsAlive EXCEPT ![ws] = FALSE]
          /\ last' = Event("hb2", ws, "ping", {})
          /\ UNCHANGED <<hb2, sigTerminated>>
  /\ sigTicks' = [sigTicks EXCEPT ![ws] = CountTick(sigTicks[ws])]
  /\ out' = {}
  /\ UNCHANGED <<clients, stations, opened, now, creator, hbVars>>
  /\ UNCHANGED <<signalClients, stationBroadcasterWS, sigOpened, sigClosing>>
  /\ UNCHANGED <<envVars, dbVars>>

\* ws.on("pong") of a signaling ws
SigPong(ws) ==
  /\ SigReceiving(ws)
  /\ ws \in sigResponsive
  /\ sigIsAlive[ws] = FALSE
  /\ sigIsAlive' = [sigIsAlive EXCEPT ![ws] = TRUE]
  /\ out' = {}
  /\ last' = Event("pong2", ws, "ok", {})
  /\ UNCHANGED <<clients, stations, opened, now, creator, hbVars>>
  /\ UNCHANGED <<signalClients, stationBroadcasterWS, sigOpened, sigClosing,
                 hb2, sigTerminated, sigTicks>>
  /\ UNCHANGED <<envVars, dbVars>>

\* the "close" event that ws.terminate() brings about
CloseTerminated(ws) == ws \in terminated /\ Close(ws)
SigCloseTerminated(ws) == ws \in sigTerminated /\ SigClose(ws)

\* any peer may answer pings or not
InitHeartbeat ==
  /\ PresenceInit
  /\ SignalInit
  /\ NoLogin
  /\ responsive \in SUBSET HbConns
  /\ sigResponsive \in SUBSET SigHbConns
  /\ session = [ws \in Conns |-> NULL]
  /\ sigSession = [ws \in SigConns |-> NULL]

NextHeartbeat ==
  \/ \E ws \in HbConns : Connect(ws)
  \/ \E ws \in HbConns, raw \in HbRawIds : Identify(ws, raw)
  \/ \E ws \in HbBroadcasters : BroadcastStart(ws)
  \/ \E ws \in HbConns \ HbBroadcasters, raw \in HbRawIds : ListenStart(ws, raw)
  \/ \E ws \in HbConns : HbTick(ws)
  \/ \E ws \in HbConns : Pong(ws)
  \/ \E ws \in HbConns : Close(ws)
  \/ \E ws \in SigHbConns : SigConnect(ws)
  \/ \E ws \in SigHbConns : SigHbTick(ws)
  \/ \E ws \in SigHbConns : SigPong(ws)
  \/ \E ws \in SigHbConns : SigClose(ws)

\* a running interval keeps firing, and a terminated socket emits "close"
FairHeartbeat ==
  /\ \A ws \in HbConns : WF_vars(HbTick(ws))
  /\ \A ws \in HbConns : WF_vars(CloseTerminated(ws))
  /\ \A ws \in SigHbConns : WF_vars(SigHbTick(ws))
  /\ \A ws \in SigHbConns : WF_vars(SigCloseTerminated(ws))

SpecHeartbeat == InitHeartbeat /\ [][NextHeartbeat]_vars /\ FairHeartbeat

\* ws is gone from the presence registry: no record, member of no listener set
PresenceGone(ws) ==
  /\ ws \notin DOMAIN clients
  /\ \A f \in DOMAIN stations : ws \notin ListenersOf(stations, f)

\* an open connection whose peer never answers has seen two ticks only if it
\* was terminated
TerminatedBySecondTick ==
  /\ \A ws \in DOMAIN clients :
       (ws \notin responsive /\ ticks[ws] >= 2) => ws \in terminated
  /\ \A ws \in DOMAIN signalClients :
       (ws \notin sigResponsive /\ sigTicks[ws] >= 2) => ws \in sigTerminated

\* C19: a connection that never answers a ping is terminated by the second
\* tick after it opened, and then its close is handled: its record is deleted
\* and it is in no listener set.
C19_SilentPeerReaped ==
  /\ []TerminatedBySecondTick
  /\ \A ws \in HbConns :
       (ws \in DOMAIN clients /\ ws \notin responsive) ~> PresenceGone(ws)
  /\ \A ws \in SigHbConns :
       (ws \in DOMAIN signalClients /\ ws \notin sigResponsive)
         ~> (ws \notin DOMAIN signalClients)

\* a silent listener was terminated at its second tick and its close was
\* handled: it left the registry while the station it listened to is on air
C19_Witness ==
  /\ last.type = "close"
  /\ last.ws \notin responsive
  /\ ticks[last.ws] = 2
  /\ PresenceGone(last.ws)
  /\ stations # <<>>
  /\ \E w \in sigOpened :
       w \notin sigResponsive /\ sigTicks[w] = 2 /\ w \notin DOMAIN signalClients

(***************************************************************************)
(* loginFlat and the flats row it reads.                                   *)
(***************************************************************************)

\* bcrypt.hash and bcrypt.compare: a hash matches the text it was made from
\* and no other
Hash(text) == <<"$2b$">> \o text
bcryptCompare(text, hash) == hash = Hash(text)

\* String(x) of a string, or of a missing value
StringOf(x) == IF x = NULL THEN <<"n", "u", "l", "l">> ELSE x

\* /^\d{4}$/.test(s)
Digits == { "0", "1", "2", "3", "4", "5", "6", "7", "8", "9" }
IsPin4(s) == Len(s) = 4 /\ \A i \in 1..4 : s[i] \in Digits

\* the PIN and the password the flat was set up with
RightPin == <<"1", "2", "3", "4">>
RightPassword == <<"p", "w">>

\* the inputs of a login
LoginFlatIds == { <<" ", "a">>, <<"b", " ">> }
Pins == { RightPin, <<"4", "3", "2", "1">>, <<"1", "2", "3">>, NULL }
Passwords == { NULL, <<>>, RightPassword, <<"x">> }
LoginInputs == [flat_id : LoginFlatIds, pin4 : Pins, password : Passwords]

\* ban_until: 0 for no ban, else the time the ban ends
BanTimes == 0..MaxBan
\* last_login_at of a flat that never logged in
NeverLoggedIn == -1

\* the rows table flats can hold for flat A
FlatRows ==
  [flat_id : { <<"A">> },
   status : { "ACTIVE", "DISABLED" },
   ban_until : BanTimes,
   requires_admin_revoke : BOOLEAN,
   pin_hash : { NULL, Hash(RightPin) },
   password_hash : { NULL, Hash(RightPassword) },
   last_login_at : { NeverLoggedIn }]

\* SELECT * FROM flats WHERE flat_id = $1, rows[0]
SelectFlat(flat_id) ==
  IF flatRow # NoRow /\ flatRow.flat_id = flat_id THEN flatRow ELSE NoRow

Err(error) == [ok |-> FALSE, error |-> error]
Banned(flat) ==
  [ok |-> FALSE, error |-> "BANNED", ban_until |-> flat.ban_until]
LoggedIn(flat_id) == [ok |-> TRUE, flat_id |-> flat_id]

\* loginFlat with the password asked for before the PIN is compared
loginFlatPasswordFirst(flat, flat_id, pin4, password, t) ==
  IF flat = NoRow THEN Err("FLAT_NOT_FOUND")
  ELSE IF flat.status # "ACTIVE" THEN Err("FLAT_DISABLED")
  ELSE IF flat.ban_until # 0 /\ flat.ban_until > t THEN Banned(flat)
  ELSE IF flat.requires_admin_revoke THEN Err("ADMIN_REVOKE_REQUIRED")
  ELSE IF Falsy(flat.pin_hash) THEN Err("PIN_NOT_SET")
  ELSE IF ~IsPin4(StringOf(pin4)) THEN Err("INVALID_PIN")
  ELSE IF Truthy(flat.password_hash) /\ Falsy(password)
  THEN Err("PASSWORD_REQUIRED")
  ELSE IF ~bcryptCompare(StringOf(pin4), flat.pin_hash)
  THEN Err("INVALID_CREDENTIALS")
  ELSE IF /\ Truthy(flat.password_hash)
          /\ ~bcryptCompare(StringOf(password), flat.password_hash)
  THEN Err("INVALID_CREDENTIALS")
  ELSE LoggedIn(flat_id)

\* loginFlat: what it returns for the row flat, at time t
loginFlat(flat, flat_id, pin4, password, t) ==
  IF flat = NoRow THEN Err("FLAT_NOT_FOUND")
  ELSE IF flat.status # "ACTIVE" THEN Err("FLAT_DISABLED")
  ELSE IF flat.ban_until # 0 /\ flat.ban_until > t THEN Banned(flat)
  ELSE IF flat.requires_admin_revoke THEN Err("ADMIN_REVOKE_REQUIRED")
  ELSE IF Falsy(flat.pin_hash) THEN Err("PIN_NOT_SET")
  ELSE IF ~IsPin4(StringOf(pin4)) THEN Err("INVALID_PIN")
  ELSE IF ~bcryptCompare(StringOf(pin4), flat.pin_hash)
  THEN Err("INVALID_CREDENTIALS")
  ELSE IF Truthy(flat.password_hash) /\ Falsy(password)
  THEN Err("PASSWORD_REQUIRED")
  ELSE IF /\ Truthy(flat.password_hash)
          /\ ~bcryptCompare(StringOf(password), flat.password_hash)
  THEN Err("INVALID_CREDENTIALS")
  ELSE LoggedIn(flat_id)

\* a call of loginFlat, with the UPDATE of last_login_at on success
LoginFlat(args) ==
  /\ LET flat_id == normalizeFlatId(args.flat_id)
         res == loginFlat(SelectFlat(flat_id), flat_id, args.pin4,
                          args.password, now)
     IN /\ loginResult' = res
        /\ flatRow' = IF res.ok
                      THEN [flatRow EXCEPT !.last_login_at = now]
                      ELSE flatRow
        /\ last' = Event("login", 0, IF res.ok THEN "ok" ELSE res.error, {})
  /\ loginArgs' = [flat_id |-> args.flat_id, pin4 |-> args.pin4,
                   password |-> args.password, now |-> now]
  /\ out' = {}
  /\ UNCHANGED <<clients, stations, opened, now, creator>>
  /\ UNCHANGED <<hbVars, sigVars, envVars, dbRest>>

\* the table holds any row for flat A, or none
InitLogin ==
  /\ PresenceInit
  /\ SignalInit
  /\ QuietPeers
  /\ flatRow \in FlatRows \cup { NoRow }
  /\ loginArgs = NoArgs
  /\ loginResult = NoResult
  /\ NoCalls

NextLogin ==
  \/ \E args \in LoginInputs : LoginFlat(args)
  \/ Tick

SpecLogin == InitLogin /\ [][NextLogin]_vars

\* the failing checks of a login, in a given order: the result of the first
\* check that fails, or success
RECURSIVE FirstFailing(_, _)
FirstFailing(checks, success) ==
  IF checks = <<>> THEN success
  ELSE IF Head(checks).fails THEN Head(checks).result
  ELSE FirstFailing(Tail(checks), success)

Check(fails, result) == [fails |-> fails, result |-> result]

\* the checks on the row, which come first
RowChecks(flat, t) ==
  << Check(flat = NoRow, Err("FLAT_NOT_FOUND")),
     Check(flat # NoRow /\ flat.status # "ACTIVE", Err("FLAT_DISABLED")),
     Check(flat # NoRow /\ flat.ban_until # 0 /\ flat.ban_until > t,
           IF flat # NoRow THEN Banned(flat) ELSE Err("BANNED")),
     Check(flat # NoRow /\ flat.requires_admin_revoke,
           Err("ADMIN_REVOKE_REQUIRED")),
     Check(flat # NoRow /\ Falsy(flat.pin_hash), Err("PIN_NOT_SET")) >>

PinFormat(pin4) == Check(~IsPin4(StringOf(pin4)), Err("INVALID_PIN"))

PasswordMissing(flat, password) ==
  Check(flat # NoRow /\ Truthy(flat.password_hash) /\ Falsy(password),
        Err("PASSWORD_REQUIRED"))

PinWrong(flat, pin4) ==
  Check(flat # NoRow /\ flat.pin_hash # Hash(StringOf(pin4)),
        Err("INVALID_CREDENTIALS"))

PasswordWrong(flat, password) ==
  Check(/\ flat # NoRow
        /\ Truthy(flat.password_hash)
        /\ flat.password_hash # Hash(StringOf(password)),
        Err("INVALID_CREDENTIALS"))

\* the row and the inputs of the last call
CalledRow == SelectFlat(normalizeFlatId(loginArgs.flat_id))
Called == loginResult # NoResult

\* C20, as stated: the error is that of the first failing check in the order
\* FLAT_NOT_FOUND, FLAT_DISABLED, BANNED, ADMIN_REVOKE_REQUIRED, PIN_NOT_SET,
\* INVALID_PIN, PASSWORD_REQUIRED, INVALID_CREDENTIALS.
C20_ErrorOrderAsStated ==
  Called =>
    loginResult =
      FirstFailing(RowChecks(CalledRow, loginArgs.now)
                     \o << PinFormat(loginArgs.pin4),
                           PasswordMissing(CalledRow, loginArgs.password),
                           PinWrong(CalledRow, loginArgs.pin4),
                           PasswordWrong(CalledRow, loginArgs.password) >>,
                   LoggedIn(normalizeFlatId(loginArgs.flat_id)))

\* C20, amended: the order is FLAT_NOT_FOUND, FLAT_DISABLED, BANNED,
\* ADMIN_REVOKE_REQUIRED, PIN_NOT_SET, INVALID_PIN, INVALID_CREDENTIALS for a
\* wrong PIN, PASSWORD_REQUIRED, INVALID_CREDENTIALS for a wrong password.
C20_ErrorOrder ==
  Called =>
    loginResult =
      FirstFailing(RowChecks(CalledRow, loginArgs.now)
                     \o << PinFormat(loginArgs.pin4),
                           PinWrong(CalledRow, loginArgs.pin4),
                           PasswordMissing(CalledRow, loginArgs.password),
                           PasswordWrong(CalledRow, loginArgs.password) >>,
                   LoggedIn(normalizeFlatId(loginArgs.flat_id)))

\* a well-formed wrong PIN and no password, against a flat that has a
\* password: the PIN is refused before the password is asked for
C20_Witness ==
  /\ Called
  /\ CalledRow # NoRow
  /\ Truthy(CalledRow.password_hash)
  /\ IsPin4(StringOf(loginArgs.pin4))
  /\ loginArgs.pin4 # RightPin
  /\ Falsy(loginArgs.password)
  /\ loginResult = Err("INVALID_CREDENTIALS")

(***************************************************************************)
(* Claims about the station records and the public station list.           *)
(***************************************************************************)

\* C26: every station's audio.micLevel is a number in [0,1] (0..10 tenths).
C26_MicLevelInUnitInterval ==
  \A f \in DOMAIN stations :
    /\ ~stations[f].audio.micLevel.nan
    /\ stations[f].audio.micLevel.tenths >= 0
    /\ stations[f].audio.micLevel.tenths <= 10

\* String(a).localeCompare(String(b)) < 0 for flat ids: the characters of
\* the ids in collation order, a proper prefix first
Collation == << " ", "A", "B" >>
CharRank(c) == CHOOSE i \in 1..Len(Collation) : Collation[i] = c

RECURSIVE localeCompareLess(_, _)
localeCompareLess(a, b) ==
  IF b = <<>> THEN FALSE
  ELSE IF a = <<>> THEN TRUE
  ELSE IF Head(a) # Head(b) THEN CharRank(Head(a)) < CharRank(Head(b))
  ELSE localeCompareLess(Tail(a), Tail(b))

\* one entry of the public list, as out.push builds it
PublicEntry(flat_id) ==
  [id |-> flat_id, name |-> flat_id, live |-> TRUE,
   listeners |-> Cardinality(stations[flat_id].listeners),
   startedAt |-> stations[flat_id].startedAt]

\* out.sort(...) of the entries of the given keys
RECURSIVE SortedEntries(_)
SortedEntries(keys) ==
  IF keys = {} THEN <<>>
  ELSE LET least == CHOOSE k \in keys :
                      \A other \in keys \ {k} : localeCompareLess(k, other)
       IN <<PublicEntry(least)>> \o SortedEntries(keys \ {least})

\* buildPublicStations that reports the listeners of the whole registry
buildPublicStationsAllListeners ==
  [i \in 1..Len(SortedEntries(DOMAIN stations)) |->
     [SortedEntries(DOMAIN stations)[i] EXCEPT
        !.listeners = Cardinality(Listeners)]]

\* buildPublicStations()
buildPublicStations == SortedEntries(DOMAIN stations)

\* C27: the public list has exactly one entry per station key, in ascending
\* id order; listeners is the size of the station's listener set; an entry
\* has the fields id, name, live, listeners, startedAt and no other.
C27_PublicListMatchesRegistry ==
  LET list == buildPublicStations
  IN /\ Len(list) = Cardinality(DOMAIN stations)
     /\ {list[i].id : i \in 1..Len(list)} = DOMAIN stations
     /\ \A i \in 1..Len(list), j \in 1..Len(list) :
          i < j => localeCompareLess(list[i].id, list[j].id)
     /\ \A i \in 1..Len(list) :
          /\ list[i].listeners = Cardinality(ListenersOf(stations, list[i].id))
          /\ list[i].name = list[i].id
          /\ list[i].live
          /\ DOMAIN list[i] = {"id", "name", "live", "listeners", "startedAt"}

\* two stations on air, one of them with a listener
C27_Witness ==
  /\ Len(buildPublicStations) = 2
  /\ \E i \in 1..2 : buildPublicStations[i].listeners = 1
  /\ \E i \in 1..2 : buildPublicStations[i].listeners = 0

\* the stations whose listener set holds ws
ListeningInOf(st, ws) == {f \in DOMAIN st : ws \in st[f].listeners}
ListeningIn(ws) == ListeningInOf(stations, ws)

\* C29: a presence connection is in at most one listener set, and an accepted
\* listen:start moves it from the old station's set to the target's set in
\* one step.
C29_AtMostOneListenTarget ==
  [][/\ \A ws \in DOMAIN clients' :
          Cardinality(ListeningInOf(stations', ws)) <= 1
     /\ (last'.type = "listen:start" /\ last'.res = "ok")
          => /\ ListeningInOf(stations', last'.ws)
                  = {clients'[last'.ws].listeningTo}
             /\ \A f \in DOMAIN stations :
                  f # clients'[last'.ws].listeningTo
                    => last'.ws \notin ListenersOf(stations', f)]_vars

\* a listener of one station has just switched to another station
C29_Witness ==
  /\ last.type = "listen:start"
  /\ last.res = "ok"
  /\ Cardinality(DOMAIN stations) = 2
  /\ \E f \in DOMAIN stations :
       /\ clients[last.ws].listeningTo = f
       /\ ListeningIn(last.ws) = {f}
       /\ \E g \in DOMAIN stations \ {f} : creator[g] # creator[f]

(***************************************************************************)
(* The two channels and the live HTTP routes side by side.                 *)
(***************************************************************************)

\* buildInternalSnapshot(): the registry as the token-gated route reports it
buildInternalSnapshot ==
  [ok |-> TRUE,
   totals |-> [wsClients |-> Cardinality(DOMAIN clients),
               stations |-> Cardinality(DOMAIN stations)],
   stations |->
     {[broadcaster |-> [flat_id |-> f, ip |-> stations[f].ip,
                        startedAt |-> stations[f].startedAt,
                        audio |-> stations[f].audio],
       listeners |-> {[flat_id |-> clients[w].flat_id, ip |-> clients[w].ip] :
                        w \in stations[f].listeners \cap DOMAIN clients}] :
        f \in DOMAIN stations},
   clients |-> {clients[w] : w \in DOMAIN clients}]

\* what a live HTTP route leaves alone: everything but the response
HttpUnchanged ==
  UNCHANGED <<clients, stations, opened, now, creator, hbVars, sigVars,
              envVars, dbVars>>

\* GET /api/live, past requireUser
GetLive ==
  /\ out' = {[to |-> NoWs, type |-> "http:response", ok |-> TRUE,
              stations |-> buildPublicStations]}
  /\ last' = Event("GET /api/live", NoWs, "ok", {})
  /\ HttpUnchanged

\* GET /api/internal/live-snapshot, past requireLiveToken
GetSnapshot ==
  /\ out' = {[to |-> NoWs, type |-> "http:response",
              snapshot |-> buildInternalSnapshot]}
  /\ last' = Event("GET /api/internal/live-snapshot", NoWs, "ok", {})
  /\ HttpUnchanged

NextPlanes ==
  \/ \E ws \in StationConns : Connect(ws)
  \/ \E ws \in StationConns, raw \in StationRawIds : Identify(ws, raw)
  \/ \E ws \in StationConns : BroadcastStart(ws)
  \/ \E ws \in StationConns : BroadcastStop(ws)
  \/ \E ws \in StationConns : Close(ws)
  \/ \E ws \in SigHbConns : SigConnect(ws)
  \/ \E ws \in SigHbConns, raw \in SigRawIds, role \in SigRoles :
       SigIdentify(ws, raw, role)
  \/ \E ws \in SigHbConns, raw \in JoinRawIds : ListenJoin(ws, raw)
  \/ \E ws \in SigHbConns : ListenLeave(ws)
  \/ \E ws \in SigHbConns, id \in ListenerIds : WebrtcOffer(ws, id)
  \/ \E ws \in SigHbConns, raw \in SigRawIds : WebrtcAnswer(ws, raw)
  \/ \E ws \in SigHbConns, id \in ListenerIds, raw \in IceRawIds :
       WebrtcIce(ws, id, raw)
  \/ \E ws \in SigHbConns : SigHbTick(ws)
  \/ \E ws \in SigHbConns : SigPong(ws)
  \/ \E ws \in SigHbConns : SigClose(ws)
  \/ GetLive
  \/ GetSnapshot

SpecPlanes == Init /\ [][NextPlanes]_vars

\* the events of the presence channel
PresenceEvents ==
  { "connection", "identify", "broadcast:start", "broadcast:stop",
    "broadcast:status", "listen:start", "listen:stop", "close" }

\* C28: a step that changes the station registry or a presence client record
\* is the handling of a presence frame, a presence connection or a presence
\* close; signaling events and HTTP requests change neither.
C28_RegistryChangedByPresenceOnly ==
  [][(clients' # clients \/ stations' # stations)
       => last'.type \in PresenceEvents]_vars

\* with station A on air, a signaling broadcaster for A was terminated by the
\* heartbeat and closed, and the station is still there
C28_Witness ==
  /\ last.type = "signal:close"
  /\ \E w \in sigOpened \ DOMAIN signalClients : sigTicks[w] = 2
  /\ <<"A">> \in DOMAIN stations
  /\ <<"A">> \notin DOMAIN stationBroadcasterWS

(***************************************************************************)
(* createAccessRequest: each await is a point where other calls run.       *)
(***************************************************************************)

\* the arguments of a request for access: two spellings of flat A, a name or
\* a blank name
RequestInputs ==
  [flat_id : { <<" ", "a">>, <<"A">> }, name : { <<"x">>, <<" ">> }]

\* the request rows an admin may have left behind for flat A
RequestRow(flat_id, name, status, t) ==
  [flat_id |-> flat_id, name |-> name, note |-> <<>>, status |-> status,
   created_at |-> t, updated_at |-> t]
RequestTables ==
  { <<>>, <<RequestRow(<<"A">>, <<"x">>, "APPROVED", 0)>>,
    <<RequestRow(<<"A">>, <<"x">>, "REJECTED", 0)>> }

\* a call slot is free: no call was made on it, or the call has ended
Free(p) == calls[p].pc \in { "idle", "done", "thrown" }

\* the calls of createAccessRequest that may still insert a row
Inserting == {p \in Procs : calls[p].pc \in { "req:select", "req:insert" }}

\* the ids of the PENDING rows of a flat
PendingOf(flat_id) ==
  {i \in DOMAIN requests :
     requests[i].flat_id = flat_id /\ requests[i].status = "PENDING"}

\* ORDER BY created_at DESC LIMIT 1: a row with the greatest created_at
Latest(ids) ==
  {i \in ids : \A j \in ids : requests[j].created_at <= requests[i].created_at}

\* what a call leaves alone besides the tables it names
CallUnchanged ==
  UNCHANGED <<clients, stations, opened, now, creator, hbVars, sigVars,
              envVars, loginArgs, loginResult>>

\* createAccessRequest up to its first await: the arguments are normalised
\* and checked, the SELECT is sent
RequestStart(p, args) ==
  /\ Free(p)
  /\ Len(requests) + Cardinality(Inserting) < MaxRequests
  /\ LET flat_id == normalizeFlatId(args.flat_id)
         name == trim(StringOrEmpty(args.name))
     IN calls' =
          [calls EXCEPT ![p] =
             IF Falsy(flat_id) \/ Falsy(name)
             THEN [pc |-> "done", op |-> "createAccessRequest",
                   result |-> Err("MISSING_FIELDS")]
             ELSE [pc |-> "req:select", op |-> "createAccessRequest",
                   flat_id |-> flat_id, name |-> name, now |-> now]]
  /\ out' = {}
  /\ last' = Event("createAccessRequest", p, "start", {})
  /\ UNCHANGED <<flatRow, requests, codes, pool, okBy, sessionStore, revoked>>
  /\ CallUnchanged

\* the SELECT of the PENDING row answers: an existing row is returned as
\* reused, otherwise the INSERT is sent
RequestSelect(p) ==
  /\ calls[p].pc = "req:select"
  /\ LET existing == Latest(PendingOf(calls[p].flat_id))
     IN IF existing # {}
        THEN \E id \in existing :
               calls' = [calls EXCEPT ![p] =
                           [pc |-> "done", op |-> "createAccessRequest",
                            result |-> [ok |-> TRUE, id |-> id,
                                        status |-> requests[id].status,
                                        reused |-> TRUE]]]
        ELSE calls' = [calls EXCEPT ![p].pc = "req:insert"]
  /\ out' = {}
  /\ last' = Event("createAccessRequest", p, "select", {})
  /\ UNCHANGED <<flatRow, requests, codes, pool, okBy, sessionStore, revoked>>
  /\ CallUnchanged

\* the INSERT answers with the new row's id
RequestInsert(p) ==
  /\ calls[p].pc = "req:insert"
  /\ requests' = Append(requests,
                        RequestRow(calls[p].flat_id, calls[p].name, "PENDING",
                                   calls[p].now))
  /\ calls' = [calls EXCEPT ![p] =
                 [pc |-> "done", op |-> "createAccessRequest",
                  result |-> [ok |-> TRUE, id |-> Len(requests) + 1,
                              status |-> "PENDING", reused |-> FALSE]]]
  /\ out' = {}
  /\ last' = Event("createAccessRequest", p, "insert", {})
  /\ UNCHANGED <<flatRow, codes, pool, okBy, sessionStore, revoked>>
  /\ CallUnchanged

InitRequest ==
  /\ PresenceInit
  /\ SignalInit
  /\ QuietPeers
  /\ flatRow = NoRow
  /\ loginArgs = NoArgs
  /\ loginResult = NoResult
  /\ requests \in RequestTables
  /\ codes = <<>>
  /\ pool = [c \in PoolClients |-> NoTx]
  /\ calls = [p \in Procs |-> Idle]
  /\ okBy = NoSetups
  /\ sessionStore = <<>>
  /\ revoked = {}

NextRequest ==
  \/ \E p \in Procs, args \in RequestInputs : RequestStart(p, args)
  \/ \E p \in Procs : RequestSelect(p)
  \/ \E p \in Procs : RequestInsert(p)
  \/ Tick

SpecRequest == InitRequest /\ [][NextRequest]_vars

\* C25: at any time a flat has at most one PENDING request row.
C25_AtMostOnePending ==
  \A p \in DOMAIN requests :
    Cardinality(PendingOf(requests[p].flat_id)) <= 1

(***************************************************************************)
(* setupPinWithCode.  The function suspends at every query and at every    *)
(* bcrypt call; a step below is the answer to the awaited call followed by *)
(* the code up to the next await.  The bcrypt awaits between the compare   *)
(* and BEGIN touch only locals and are one step.                           *)
(*                                                                         *)
(* query() is pool.query: every statement is run on a client the pool      *)
(* picks, and nothing ties the statements of one call to one client.  The  *)
(* same pool serves every other request (the session store included), so   *)
(* the client a statement gets is a choice the call does not control.      *)
(* A transaction belongs to the client that ran BEGIN: writes on a client  *)
(* with an open transaction are seen on that client only until its COMMIT, *)
(* writes on a client without one are committed at once.                   *)
(***************************************************************************)

\* used_at of a code that was never used (NULL in the table)
NeverUsed == -1

SetupCodeK == <<"K">>
SetupCodeJ == <<"J">>

CodeRow(code, expires_at) ==
  [flat_id |-> <<"A">>, code_hash |-> Hash(code), expires_at |-> expires_at,
   used_at |-> NeverUsed]

\* setup_codes for flat A, newest first: code K alone, or a code K that
\* expires first and an older code J, or five expired codes and below them,
\* sixth, the code J
SetupCodeTables ==
  { <<CodeRow(SetupCodeK, 2)>>,
    <<CodeRow(SetupCodeK, 1), CodeRow(SetupCodeJ, 2)>>,
    [i \in 1..5 |-> CodeRow(SetupCodeK, 0)] \o <<CodeRow(SetupCodeJ, 2)>> }

\* the flat row an approval leaves: no PIN, no password
FreshFlat(status) ==
  [flat_id |-> <<"A">>, status |-> status, ban_until |-> 0,
   requires_admin_revoke |-> FALSE, pin_hash |-> NULL,
   password_hash |-> NULL, last_login_at |-> NeverLoggedIn]

SetupFlatRows == { NoRow, FreshFlat("ACTIVE"), FreshFlat("DISABLED") }

SetupInputs ==
  [flat_id : { <<" ", "a">> },
   code : { SetupCodeK, <<" ", "J">> , NULL },
   pin4 : { RightPin, <<"1", "2", "3">> },
   password : { NULL, RightPassword }]

\* the flats row as client c sees it
FlatSeen(c, flat_id) ==
  LET row == IF pool[c].flat # <<>> THEN pool[c].flat[1] ELSE flatRow
  IN IF row # NoRow /\ row.flat_id = flat_id THEN row ELSE NoRow

\* the setup_codes rows as client c sees them
CodesSeen(c) ==
  [i \in DOMAIN codes |->
     IF i \in DOMAIN pool[c].used
     THEN [codes[i] EXCEPT !.used_at = pool[c].used[i]]
     ELSE codes[i]]

\* a row written in a transaction of another client that has not ended yet
FlatLocked(c) ==
  \E d \in PoolClients \ {c} : pool[d].open /\ pool[d].flat # <<>>
CodeLocked(c, id) ==
  \E d \in PoolClients \ {c} : pool[d].open /\ id \in DOMAIN pool[d].used

\* a find that takes the oldest unused, unexpired row of the five
ValidCodeOldest(rows, flat_id, t) ==
  LET five == {i \in DOMAIN rows : i <= 5 /\ rows[i].flat_id = flat_id}
      good == {i \in five :
                 rows[i].used_at = NeverUsed /\ rows[i].expires_at > t}
  IN IF good = {} THEN 0 ELSE CHOOSE i \in good : \A j \in good : i >= j

\* rows.find((r) => !r.used_at && Number(r.expires_at) > now) over the five
\* newest rows of the flat: the index of the first such row, 0 if none
ValidCode(rows, flat_id, t) ==
  LET five == {i \in DOMAIN rows : i <= 5 /\ rows[i].flat_id = flat_id}
      good == {i \in five :
                 rows[i].used_at = NeverUsed /\ rows[i].expires_at > t}
  IN IF good = {} THEN 0 ELSE CHOOSE i \in good : \A j \in good : i <= j

\* a call that has returned: its result and what the history keeps of it
Returned(call, result) ==
  [pc |-> "done", op |-> call.op, result |-> result, code |-> call.code,
   after |-> call.after, wrote |-> call.wrote]

\* setupPinWithCode up to the first await
SetupStart(p, args) ==
  /\ Free(p)
  /\ okBy.calls < MaxSetupCalls
  /\ LET flat_id == normalizeFlatId(args.flat_id)
         call == [pc |-> "setup:flat", op |-> "setupPinWithCode",
                  flat_id |-> flat_id, code |-> args.code,
                  pin4 |-> args.pin4, password |-> args.password,
                  now |-> now, valid |-> 0, after |-> okBy.texts,
                  wrote |-> FALSE]
     IN calls' =
          [calls EXCEPT ![p] =
             IF Falsy(flat_id) \/ Falsy(args.code) \/ Falsy(args.pin4)
             THEN Returned(call, Err("MISSING_FIELDS"))
             ELSE IF ~IsPin4(StringOf(args.pin4))
             THEN Returned(call, Err("PIN_MUST_BE_4_DIGITS"))
             ELSE call]
  /\ okBy' = [okBy EXCEPT !.calls = @ + 1]
  /\ out' = {}
  /\ last' = Event("setupPinWithCode", p, "start", {})
  /\ UNCHANGED <<flatRow, requests, codes, pool, sessionStore, revoked>>
  /\ CallUnchanged

\* what a step of a call leaves alone besides the database
StepUnchanged(p, step) ==
  /\ out' = {}
  /\ last' = Event(calls[p].op, p, step, {})
  /\ UNCHANGED <<requests, revoked>>
  /\ CallUnchanged

\* SELECT * FROM flats answered on client c
SetupFlat(p, c) ==
  /\ calls[p].pc = "setup:flat"
  /\ LET flat == FlatSeen(c, calls[p].flat_id)
     IN calls' =
          [calls EXCEPT ![p] =
             IF flat = NoRow
             THEN Returned(calls[p], Err("FLAT_NOT_FOUND"))
             ELSE IF flat.status # "ACTIVE"
             THEN Returned(calls[p], Err("FLAT_DISABLED"))
             ELSE [calls[p] EXCEPT !.pc = "setup:codes"]]
  /\ UNCHANGED <<flatRow, codes, pool, okBy, sessionStore>>
  /\ StepUnchanged(p, "flat")

\* the SELECT of the setup codes answered on client c
SetupCodes(p, c) ==
  /\ calls[p].pc = "setup:codes"
  /\ LET valid == ValidCode(CodesSeen(c), calls[p].flat_id, calls[p].now)
     IN calls' =
          [calls EXCEPT ![p] =
             IF valid = 0
             THEN Returned(calls[p], Err("NO_VALID_CODE"))
             ELSE [calls[p] EXCEPT !.pc = "setup:compare",
                                   !.valid = valid]]
  /\ UNCHANGED <<flatRow, codes, pool, okBy, sessionStore>>
  /\ StepUnchanged(p, "codes")

\* bcrypt.compare answered; the PIN and the password are hashed; BEGIN is sent
SetupCompare(p) ==
  /\ calls[p].pc = "setup:compare"
  /\ calls' =
       [calls EXCEPT ![p] =
          IF ~bcryptCompare(trim(StringOf(calls[p].code)),
                            codes[calls[p].valid].code_hash)
          THEN Returned(calls[p], Err("INVALID_CODE"))
          ELSE [calls[p] EXCEPT !.pc = "setup:begin"]]
  /\ UNCHANGED <<flatRow, codes, pool, okBy, sessionStore>>
  /\ StepUnchanged(p, "compare")

\* BEGIN answered on client c: c is in a transaction from here on
SetupBegin(p, c) ==
  /\ calls[p].pc = "setup:begin"
  /\ pool' = [pool EXCEPT ![c].open = TRUE]
  /\ calls' = [calls EXCEPT ![p].pc = "setup:update"]
  /\ UNCHANGED <<flatRow, codes, okBy, sessionStore>>
  /\ StepUnchanged(p, "begin")

\* the flat row with the hashes of the call's PIN and password
WithHashes(flat, call) ==
  [flat EXCEPT !.pin_hash = Hash(StringOf(call.pin4)),
               !.password_hash = IF Truthy(call.password)
                                 THEN Hash(StringOf(call.password))
                                 ELSE NULL]

\* UPDATE flats answered on client c
SetupUpdateFlat(p, c) ==
  /\ calls[p].pc = "setup:update"
  /\ ~FlatLocked(c)
  /\ LET flat == FlatSeen(c, calls[p].flat_id)
     IN IF flat = NoRow
        THEN UNCHANGED <<flatRow, pool>>
        ELSE IF pool[c].open
        THEN /\ pool' = [pool EXCEPT ![c].flat = <<WithHashes(flat, calls[p])>>]
             /\ UNCHANGED flatRow
        ELSE /\ flatRow' = WithHashes(flat, calls[p])
             /\ UNCHANGED pool
  /\ calls' = [calls EXCEPT ![p].pc = "setup:used", ![p].wrote = TRUE]
  /\ UNCHANGED <<codes, okBy, sessionStore>>
  /\ StepUnchanged(p, "update")

\* UPDATE setup_codes SET used_at answered on client c
SetupMarkUsed(p, c) ==
  /\ calls[p].pc = "setup:used"
  /\ ~CodeLocked(c, calls[p].valid)
  /\ IF pool[c].open
     THEN /\ pool' = [pool EXCEPT
                        ![c].used = MapSet(@, calls[p].valid, calls[p].now)]
          /\ UNCHANGED codes
     ELSE /\ codes' = [codes EXCEPT ![calls[p].valid].used_at = calls[p].now]
          /\ UNCHANGED pool
  /\ calls' = [calls EXCEPT ![p].pc = "setup:commit"]
  /\ UNCHANGED <<flatRow, okBy, sessionStore>>
  /\ StepUnchanged(p, "used")

\* UPDATE setup_codes fails on client c (its connection is lost, and with it
\* the transaction it was in): the catch block sends ROLLBACK
SetupMarkFails(p, c) ==
  /\ calls[p].pc = "setup:used"
  /\ pool' = [pool EXCEPT ![c] = NoTx]
  /\ calls' = [calls EXCEPT ![p].pc = "setup:rollback"]
  /\ UNCHANGED <<flatRow, codes, okBy, sessionStore>>
  /\ StepUnchanged(p, "failed")

\* a row of user_sessions deleted in a transaction that has not ended
Gone == [gone |-> TRUE]

\* table user_sessions as client c sees it
SessSeen(c) ==
  LET over == pool[c].sess
      sids == (DOMAIN sessionStore \cup DOMAIN over)
                \ {sid \in DOMAIN over : over[sid] = Gone}
  IN [sid \in sids |->
        IF sid \in DOMAIN over THEN over[sid] ELSE sessionStore[sid]]

\* the three tables once client c commits
Committed(c) ==
  [flat |-> IF pool[c].open /\ pool[c].flat # <<>>
            THEN pool[c].flat[1] ELSE flatRow,
   codes |-> IF pool[c].open THEN CodesSeen(c) ELSE codes,
   sess |-> IF pool[c].open THEN SessSeen(c) ELSE sessionStore]

\* COMMIT answered on client c: the call returns ok
SetupCommit(p, c) ==
  /\ calls[p].pc = "setup:commit"
  /\ flatRow' = Committed(c).flat
  /\ codes' = Committed(c).codes
  /\ sessionStore' = Committed(c).sess
  /\ pool' = [pool EXCEPT ![c] = NoTx]
  /\ calls' = [calls EXCEPT ![p] = Returned(calls[p], [ok |-> TRUE])]
  /\ okBy' = [okBy EXCEPT
                !.rows = MapSet(@, calls[p].valid,
                                IF calls[p].valid \in DOMAIN @
                                THEN @[calls[p].valid] + 1 ELSE 1),
                !.texts = @ \cup {trim(StringOf(calls[p].code))}]
  /\ StepUnchanged(p, "commit")

\* ROLLBACK answered on client c: the error is thrown to the route
SetupRollback(p, c) ==
  /\ calls[p].pc = "setup:rollback"
  /\ pool' = [pool EXCEPT ![c] = NoTx]
  /\ calls' = [calls EXCEPT ![p].pc = "thrown"]
  /\ UNCHANGED <<flatRow, codes, okBy, sessionStore>>
  /\ StepUnchanged(p, "rollback")

InitSetup ==
  /\ PresenceInit
  /\ SignalInit
  /\ QuietPeers
  /\ flatRow \in SetupFlatRows
  /\ loginArgs = NoArgs
  /\ loginResult = NoResult
  /\ requests = <<>>
  /\ codes \in SetupCodeTables
  /\ pool = [c \in PoolClients |-> NoTx]
  /\ calls = [p \in Procs |-> Idle]
  /\ okBy = NoSetups
  /\ sessionStore = <<>>
  /\ revoked = {}

NextSetup ==
  \/ \E p \in Procs, args \in SetupInputs : SetupStart(p, args)
  \/ \E p \in Procs, c \in PoolClients : SetupFlat(p, c)
  \/ \E p \in Procs, c \in PoolClients : SetupCodes(p, c)
  \/ \E p \in Procs : SetupCompare(p)
  \/ \E p \in Procs, c \in PoolClients : SetupBegin(p, c)
  \/ \E p \in Procs, c \in PoolClients : SetupUpdateFlat(p, c)
  \/ \E p \in Procs, c \in PoolClients : SetupMarkUsed(p, c)
  \/ \E p \in Procs, c \in PoolClients : SetupMarkFails(p, c)
  \/ \E p \in Procs, c \in PoolClients : SetupCommit(p, c)
  \/ \E p \in Procs, c \in PoolClients : SetupRollback(p, c)
  \/ Tick

SpecSetup == InitSetup /\ [][NextSetup]_vars

\* the setup calls that have returned
SetupDone ==
  {p \in Procs : calls[p].pc = "done" /\ calls[p].op = "setupPinWithCode"}

\* C22: a setup call with a well-formed PIN, made with a code that an
\* earlier, completed call had succeeded with, fails with INVALID_CODE and
\* writes no hash.
C22_SecondUseInvalidCode ==
  \A p \in SetupDone :
    (/\ trim(StringOf(calls[p].code)) \in calls[p].after
     /\ calls[p].result # Err("PIN_MUST_BE_4_DIGITS"))
      => calls[p].result = Err("INVALID_CODE") /\ ~calls[p].wrote

\* C23: a setup code row enables at most one successful call, whatever the
\* interleaving of the calls.
C23_CodeEnablesOneSuccess ==
  \A id \in DOMAIN okBy.rows : okBy.rows[id] <= 1

\* C24: the hashes and the used mark are written together: a committed
\* pin_hash comes with a used code, and a call that threw leaves the hashes
\* as they were.
C24_SetupWriteAtomic ==
  /\ (flatRow # NoRow /\ flatRow.pin_hash # NULL)
       => \E id \in DOMAIN codes : codes[id].used_at # NeverUsed
  /\ \A p \in Procs :
       (calls[p].pc = "thrown" /\ okBy.calls = 1)
         => flatRow.pin_hash = NULL /\ flatRow.password_hash = NULL

(***************************************************************************)
(* login next to the access requests of the flat                           *)
(***************************************************************************)

\* the flat_requests rows of a flat
RequestsOf(flat_id) == {i \in DOMAIN requests : requests[i].flat_id = flat_id}

\* the status getSetupStatus reports for the flat's request: that of the row
\* with the greatest created_at
RequestApproved(flat_id) ==
  \E i \in Latest(RequestsOf(flat_id)) : requests[i].status = "APPROVED"

\* a flats row exists once the flat's request was approved; without a row the
\* request is absent, pending or rejected
InitAccess ==
  /\ PresenceInit
  /\ SignalInit
  /\ QuietPeers
  /\ flatRow \in FlatRows \cup { NoRow }
  /\ loginArgs = NoArgs
  /\ loginResult = NoResult
  /\ IF flatRow = NoRow
     THEN requests \in { <<>>, <<RequestRow(<<"A">>, <<"x">>, "PENDING", 0)>>,
                         <<RequestRow(<<"A">>, <<"x">>, "REJECTED", 0)>> }
     ELSE requests = <<RequestRow(<<"A">>, <<"x">>, "APPROVED", 0)>>
  /\ codes = <<>>
  /\ pool = [c \in PoolClients |-> NoTx]
  /\ calls = [p \in Procs |-> Idle]
  /\ okBy = NoSetups
  /\ sessionStore = <<>>
  /\ revoked = {}

NextAccess ==
  \/ \E args \in LoginInputs : LoginFlat(args)
  \/ \E args \in RequestInputs : RequestStart(1, args)
  \/ RequestSelect(1)
  \/ RequestInsert(1)
  \/ Tick

SpecAccess == InitAccess /\ [][NextAccess]_vars

\* C21: a login returns ok only if, when it is called, the flat's access
\* request is APPROVED, the flat row exists and is ACTIVE, its PIN is set, it
\* is not banned and no admin revoke is required.
C21_LoginRequiresApproved ==
  [][(last'.type = "login" /\ loginResult'.ok)
       => LET flat_id == normalizeFlatId(loginArgs'.flat_id)
              flat == SelectFlat(flat_id)
          IN /\ RequestApproved(flat_id)
             /\ flat # NoRow
             /\ flat.status = "ACTIVE"
             /\ Truthy(flat.pin_hash)
             /\ flat.ban_until <= now
             /\ ~flat.requires_admin_revoke]_vars

(***************************************************************************)
(* sessions: express-session over table user_sessions, on the same pool    *)
(***************************************************************************)

Sids == 1..MaxSids
\* a request without the audix_user_sid cookie
NoSid == 0
Cookies == Sids \cup { NoSid }

\* req.session.user = { flat_id }
SessionOf(flat_id) == [user |-> [flat_id |-> flat_id]]

\* a row written in a transaction of another client that has not ended yet
SessLocked(c, sid) ==
  \E d \in PoolClients \ {c} : pool[d].open /\ sid \in DOMAIN pool[d].sess

\* the session ids no row, no transaction and no request in flight holds
FreshSids ==
  Sids \ (DOMAIN sessionStore
            \cup UNION {DOMAIN pool[c].sess : c \in PoolClients}
            \cup {calls[p].sid : p \in {q \in Procs : calls[q].pc
                     \in { "login:select", "login:update", "login:save",
                           "logout:destroy" }}}
            \cup revoked)

\* the session middleware: the cookie's session as client c reads it, or a
\* new session under a new id when the store has none
Loaded(c, cookie, fresh) ==
  IF cookie \in DOMAIN SessSeen(c)
  THEN [id |-> cookie, found |-> TRUE, data |-> SessSeen(c)[cookie]]
  ELSE [id |-> fresh, found |-> FALSE, data |-> Gone]

\* requireUser on a loaded session
Authenticated(loaded) ==
  loaded.found /\ Truthy(loaded.data.user.flat_id)

\* what a request leaves alone besides the session store
WebUnchanged ==
  /\ out' = {}
  /\ UNCHANGED <<requests, codes>>
  /\ CallUnchanged

\* GET /app, GET /api/live or POST /api/report with the cookie: the session
\* is read on client c and requireUser decides
Gated(cookie, c) ==
  /\ last' = Event("gated", cookie,
                   IF cookie # NoSid /\ Authenticated(Loaded(c, cookie, NoSid))
                   THEN "ok" ELSE "redirect", {})
  /\ UNCHANGED <<flatRow, pool, calls, okBy, sessionStore, revoked>>
  /\ WebUnchanged

\* POST /api/login: the session is loaded, loginFlat sends its SELECT
HttpLoginStart(p, cookie, args, c) ==
  /\ Free(p)
  /\ \E fresh \in FreshSids \cup { cookie } :
       /\ (fresh = cookie) = (cookie \in DOMAIN SessSeen(c))
       /\ calls' = [calls EXCEPT ![p] =
                      [pc |-> "login:select", op |-> "login",
                       sid |-> Loaded(c, cookie, fresh).id,
                       flat_id |-> normalizeFlatId(args.flat_id),
                       pin4 |-> args.pin4, password |-> args.password,
                       now |-> now]]
  /\ last' = Event("login", p, "start", {})
  /\ UNCHANGED <<flatRow, pool, okBy, sessionStore, revoked>>
  /\ WebUnchanged

\* a loginFlat that stamps last_login_at when it reads the row, before its
\* checks
HttpLoginSelectStamps(p, c) ==
  /\ calls[p].pc = "login:select"
  /\ LET flat == FlatSeen(c, calls[p].flat_id)
         res == loginFlat(flat, calls[p].flat_id, calls[p].pin4,
                          calls[p].password, calls[p].now)
     IN /\ calls' = [calls EXCEPT ![p] =
                       IF res.ok THEN [calls[p] EXCEPT !.pc = "login:update"]
                       ELSE [pc |-> "done", op |-> "login", result |-> res]]
        /\ flatRow' = IF flat = NoRow THEN flatRow
                      ELSE [flat EXCEPT !.last_login_at = calls[p].now]
  /\ last' = Event("login", p, "select", {})
  /\ UNCHANGED <<pool, okBy, sessionStore, revoked>>
  /\ WebUnchanged

\* loginFlat: the SELECT answered on client c, the checks, the UPDATE sent;
\* a failed login is answered with 401
HttpLoginSelect(p, c) ==
  /\ calls[p].pc = "login:select"
  /\ LET res == loginFlat(FlatSeen(c, calls[p].flat_id), calls[p].flat_id,
                          calls[p].pin4, calls[p].password, calls[p].now)
     IN calls' = [calls EXCEPT ![p] =
                    IF res.ok THEN [calls[p] EXCEPT !.pc = "login:update"]
                    ELSE [pc |-> "done", op |-> "login", result |-> res]]
  /\ last' = Event("login", p, "select", {})
  /\ UNCHANGED <<flatRow, pool, okBy, sessionStore, revoked>>
  /\ WebUnchanged

\* loginFlat returns ok once its UPDATE is answered on client c; the route
\* sets req.session.user and calls req.session.save
HttpLoginUpdate(p, c) ==
  /\ calls[p].pc = "login:update"
  /\ ~FlatLocked(c)
  /\ LET flat == FlatSeen(c, calls[p].flat_id)
     IN IF flat = NoRow
        THEN UNCHANGED <<flatRow, pool>>
        ELSE IF pool[c].open
        THEN /\ pool' = [pool EXCEPT ![c].flat =
                           <<[flat EXCEPT !.last_login_at = calls[p].now]>>]
             /\ UNCHANGED flatRow
        ELSE /\ flatRow' = [flat EXCEPT !.last_login_at = calls[p].now]
             /\ UNCHANGED pool
  /\ calls' = [calls EXCEPT ![p].pc = "login:save"]
  /\ okBy' = [okBy EXCEPT !.flats = @ \cup {calls[p].flat_id}]
  /\ last' = Event("login", p, "update", {})
  /\ UNCHANGED <<sessionStore, revoked>>
  /\ WebUnchanged

\* the store has written the session on client c: the login is answered
HttpLoginSave(p, c) ==
  /\ calls[p].pc = "login:save"
  /\ ~SessLocked(c, calls[p].sid)
  /\ IF pool[c].open
     THEN /\ pool' = [pool EXCEPT ![c].sess =
                        MapSet(@, calls[p].sid, SessionOf(calls[p].flat_id))]
          /\ UNCHANGED sessionStore
     ELSE /\ sessionStore' = MapSet(sessionStore, calls[p].sid,
                                    SessionOf(calls[p].flat_id))
          /\ UNCHANGED pool
  /\ calls' = [calls EXCEPT ![p] =
                 [pc |-> "done", op |-> "login",
                  result |-> LoggedIn(calls[p].flat_id)]]
  /\ revoked' = revoked \ {calls[p].sid}
  /\ last' = Event("login", p, "ok", {})
  /\ UNCHANGED <<flatRow, okBy>>
  /\ WebUnchanged

\* POST /api/logout: the session is loaded on client c, destroy is sent
HttpLogoutStart(p, cookie, c) ==
  /\ Free(p)
  /\ cookie \in DOMAIN SessSeen(c)
  /\ calls' = [calls EXCEPT ![p] =
                 [pc |-> "logout:destroy", op |-> "logout", sid |-> cookie]]
  /\ last' = Event("logout", p, "start", {})
  /\ UNCHANGED <<flatRow, pool, okBy, sessionStore, revoked>>
  /\ WebUnchanged

\* the store has deleted the row on client c: the cookie is cleared, the
\* logout is answered
HttpLogoutDestroy(p, c) ==
  /\ calls[p].pc = "logout:destroy"
  /\ ~SessLocked(c, calls[p].sid)
  /\ IF pool[c].open
     THEN /\ pool' = [pool EXCEPT ![c].sess = MapSet(@, calls[p].sid, Gone)]
          /\ UNCHANGED sessionStore
     ELSE /\ sessionStore' =
               MapDelete(sessionStore, calls[p].sid)
          /\ UNCHANGED pool
  /\ calls' = [calls EXCEPT ![p] =
                 [pc |-> "done", op |-> "logout", result |-> [ok |-> TRUE]]]
  /\ revoked' = revoked \cup {calls[p].sid}
  /\ last' = Event("logout", p, "ok", {})
  /\ UNCHANGED <<flatRow, okBy>>
  /\ WebUnchanged

\* the logins and the setup call of the web runs
WebLogins ==
  [flat_id : { <<" ", "a">> }, pin4 : { RightPin, <<"4", "3", "2", "1">> },
   password : { NULL }]
WebSetup ==
  [flat_id |-> <<" ", "a">>, code |-> SetupCodeK, pin4 |-> RightPin,
   password |-> NULL]

\* flat A is set up with its PIN; a setup code of the flat is unused
InitWeb ==
  /\ PresenceInit
  /\ SignalInit
  /\ QuietPeers
  /\ flatRow = [FreshFlat("ACTIVE") EXCEPT !.pin_hash = Hash(RightPin)]
  /\ loginArgs = NoArgs
  /\ loginResult = NoResult
  /\ requests = <<>>
  /\ codes = <<CodeRow(SetupCodeK, 2)>>
  /\ pool = [c \in PoolClients |-> NoTx]
  /\ calls = [p \in Procs |-> Idle]
  /\ okBy = NoSetups
  /\ sessionStore = <<>>
  /\ revoked = {}

NextWeb ==
  \/ \E cookie \in Cookies, c \in PoolClients : Gated(cookie, c)
  \/ \E cookie \in Cookies, args \in WebLogins, c \in PoolClients :
        HttpLoginStart(1, cookie, args, c)
  \/ \E c \in PoolClients : HttpLoginSelect(1, c)
  \/ \E c \in PoolClients : HttpLoginUpdate(1, c)
  \/ \E c \in PoolClients : HttpLoginSave(1, c)
  \/ \E cookie \in Sids, c \in PoolClients : HttpLogoutStart(1, cookie, c)
  \/ \E c \in PoolClients : HttpLogoutDestroy(1, c)
  \/ okBy.calls = 0 /\ SetupStart(MaxProcs, WebSetup)
  \/ \E c \in PoolClients : SetupFlat(MaxProcs, c)
  \/ \E c \in PoolClients : SetupCodes(MaxProcs, c)
  \/ SetupCompare(MaxProcs)
  \/ \E c \in PoolClients : SetupBegin(MaxProcs, c)
  \/ \E c \in PoolClients : SetupUpdateFlat(MaxProcs, c)
  \/ \E c \in PoolClients : SetupMarkUsed(MaxProcs, c)
  \/ \E c \in PoolClients : SetupMarkFails(MaxProcs, c)
  \/ \E c \in PoolClients : SetupCommit(MaxProcs, c)
  \/ \E c \in PoolClients : SetupRollback(MaxProcs, c)

SpecWeb == InitWeb /\ [][NextWeb]_vars

\* C30: a gated request that presents a session id whose logout has completed,
\* with no login saved on it since, is redirected to /login; and a stored
\* session carries only a flat that loginFlat returned ok for.
C30_LoggedOutStaysOut ==
  [][/\ (last'.type = "gated" /\ last'.ws \in revoked')
          => last'.res = "redirect"
     /\ \A sid \in DOMAIN sessionStore' :
          sessionStore'[sid].user.flat_id \in okBy'.flats]_vars

(***************************************************************************)
(* the close handlers run for a connection whose record is gone            *)
(***************************************************************************)

\* ws.on("close") of the presence channel as a function of the two maps
closePresence(cl, st, ws) ==
  IF ws \notin DOMAIN cl THEN [clients |-> cl, stations |-> st]
  ELSE LET c == cl[ws]
           st1 == IF Truthy(c.listeningTo)
                  THEN ListenersDelete(st, c.listeningTo, ws)
                  ELSE st
           gone == ClosedStation(c)
           socks == UNION {ListenersOf(st1, f) : f \in gone}
       IN [clients |-> MapDelete(ResetListeners(cl, socks), ws),
           stations |-> [f \in DOMAIN st1 \ gone |-> st1[f]]]

\* a close handler that, finding no record, drops the entries that still
\* point at the connection
closeSignalSweep(sc, index, ws) ==
  IF ws \notin DOMAIN sc
  THEN [signalClients |-> sc,
        index |-> [f \in {g \in DOMAIN index : index[g] # ws} |-> index[f]]]
  ELSE [signalClients |-> MapDelete(sc, ws),
        index |-> SigCloseIndex(sc[ws], ws)]

\* ws.on("close") of the signaling channel as a function of the two maps
closeSignal(sc, index, ws) ==
  IF ws \notin DOMAIN sc THEN [signalClients |-> sc, index |-> index]
  ELSE [signalClients |-> MapDelete(sc, ws),
        index |-> SigCloseIndex(sc[ws], ws)]

\* the presence close handler run again for a connection already cleaned up
Reclose(ws) ==
  /\ ws \in opened \ DOMAIN clients
  /\ clients' = closePresence(clients, stations, ws).clients
  /\ stations' = closePresence(clients, stations, ws).stations
  /\ hb' = hb \ {ws}
  /\ out' = {}
  /\ last' = Event("close", ws, "norecord", {})
  /\ UNCHANGED <<opened, now, creator, isAlive, terminated, ticks>>
  /\ UNCHANGED <<sigVars, envVars, dbVars>>

\* the signaling close handler run again for a connection already cleaned up
SigReclose(ws) ==
  /\ ws \in sigOpened \ DOMAIN signalClients
  /\ signalClients' =
       closeSignal(signalClients, stationBroadcasterWS, ws).signalClients
  /\ stationBroadcasterWS' =
       closeSignal(signalClients, stationBroadcasterWS, ws).index
  /\ hb2' = hb2 \ {ws}
  /\ out' = {}
  /\ last' = Event("signal:close", ws, "norecord", {})
  /\ UNCHANGED <<clients, stations, opened, now, creator, hbVars>>
  /\ UNCHANGED <<sigOpened, sigIsAlive, sigClosing, sigTerminated, sigTicks>>
  /\ UNCHANGED <<envVars, dbVars>>

NextCleanup ==
  \/ \E ws \in TelemetryConns : Connect(ws)
  \/ \E ws \in TelemetryConns, raw \in RawIds : Identify(ws, raw)
  \/ \E ws \in TelemetryConns : BroadcastStart(ws)
  \/ \E ws \in TelemetryConns : BroadcastStop(ws)
  \/ \E ws \in TelemetryConns, raw \in RawIds : ListenStart(ws, raw)
  \/ \E ws \in TelemetryConns : ListenStop(ws)
  \/ \E ws \in TelemetryConns : Close(ws)
  \/ \E ws \in TelemetryConns : Reclose(ws)
  \/ \E ws \in SigHbConns : SigConnect(ws)
  \/ \E ws \in SigHbConns, raw \in SigRawIds, role \in SigRoles :
       SigIdentify(ws, raw, role)
  \/ \E ws \in SigHbConns : SigClose(ws)
  \/ \E ws \in SigHbConns : SigReclose(ws)

SpecCleanup == Init /\ [][NextCleanup]_vars

\* C31: the close handler of either channel, run for a connection whose record
\* has been deleted, leaves the clients maps, the station registry and the
\* SignalBroadcasterIndex as they are; and the first run of the handler is the
\* function the second run leaves fixed.
C31_CloseIdempotent ==
  [][/\ (last'.type \in { "close", "signal:close" } /\ last'.res = "norecord")
          => /\ clients' = clients
             /\ stations' = stations
             /\ signalClients' = signalClients
             /\ stationBroadcasterWS' = stationBroadcasterWS
     /\ (last'.type = "close" /\ last'.res # "norecord")
          => /\ closePresence(clients, stations, last'.ws).clients = clients'
             /\ closePresence(clients, stations, last'.ws).stations = stations'
             /\ closePresence(clients', stations', last'.ws)
                  = [clients |-> clients', stations |-> stations']
     /\ (last'.type = "signal:close" /\ last'.res # "norecord")
          => closeSignal(signalClients', stationBroadcasterWS', last'.ws)
               = [signalClients |-> signalClients',
                  index |-> stationBroadcasterWS']]_vars

\* a station and a stale index entry are there when the handlers of the closed
\* connections run again
C31_Witness ==
  /\ last.type = "signal:close"
  /\ last.res = "norecord"
  /\ \E f \in DOMAIN stationBroadcasterWS :
       stationBroadcasterWS[f] = last.ws
  /\ stations # <<>>
  /\ \E ws \in opened : ws \notin DOMAIN clients

(***************************************************************************)
(* flat ids that differ on the wire and agree once canonical               *)
(***************************************************************************)

\* msg.flat_id, msg.targetFlat, msg.broadcasterFlat: two spellings of the
\* empty id and two spellings of flat A
KeyRawIds == { <<>>, <<" ">>, <<"A">>, <<" ", "a">> }

\* the two sockets share no state: a behaviour uses one of them
NextKeys ==
  \/ /\ sigOpened = {}
     /\ \/ \E ws \in TelemetryConns : Connect(ws)
        \/ \E ws \in TelemetryConns, raw \in KeyRawIds : Identify(ws, raw)
        \/ \E ws \in TelemetryConns : BroadcastStart(ws)
        \/ \E ws \in TelemetryConns : BroadcastStop(ws)
        \/ \E ws \in TelemetryConns, raw \in KeyRawIds : ListenStart(ws, raw)
  \/ /\ opened = {}
     /\ \/ \E ws \in SigConns : SigConnect(ws)
        \/ \E ws \in SigConns, raw \in KeyRawIds, role \in SigRoles :
             SigIdentify(ws, raw, role)
        \/ \E ws \in SigConns, raw \in KeyRawIds : ListenJoin(ws, raw)
        \/ \E ws \in SigConns, raw \in KeyRawIds : WebrtcAnswer(ws, raw)
        \/ \E ws \in SigConns, raw \in KeyRawIds : WebrtcIce(ws, NULL, raw)

SpecKeys == Init /\ [][NextKeys]_vars

C33_BroadcasterIdleOnlyByStop ==
  [][\A ws \in DOMAIN clients \cap DOMAIN clients' :
       ( /\ clients[ws].role = "broadcaster"
         /\ clients[ws].flat_id \in DOMAIN stations
         /\ clients'[ws].role = "idle" )
         => (last'.type = "broadcast:stop" /\ last'.ws = ws)]_vars

\* C34: a station leaves the registry only in a broadcast:stop from, or the
\* close of, the connection whose broadcast:start created it.
C34_OnlyCreatorRemovesStation ==
  [][\A f \in DOMAIN stations \ DOMAIN stations' :
       /\ last'.type \in {"broadcast:stop", "close"}
       /\ last'.ws = creator[f]]_vars

\* C35: a listen:start whose target has no station, or whose sender is a
\* broadcaster, changes no client record and no station.
C35_RefusedListenStartIsNoop ==
  [][last'.type = "listen:start" =>
       \A raw \in KeyRawIds :
         ( /\ ListenStart(last'.ws, raw)
           /\ \/ normalizeFlatId(raw) \notin DOMAIN stations
              \/ clients[last'.ws].role = "broadcaster" )
           => (clients' = clients /\ stations' = stations)]_vars

\* a broadcaster has just sent listen:start for a station on air, and another
\* client is listening to some station
C35_Witness ==
  /\ last.type = "listen:start"
  /\ last.ws \in Broadcasters
  /\ last.res = "is_broadcaster"
  /\ Listeners # {}

\* C36: for every presence client, whatever its role, listeningTo is flat X
\* exactly when station X is in the registry with the client's connection in
\* its listener set.
C36_TargetIffMember ==
  /\ \A ws \in DOMAIN clients :
       Truthy(clients[ws].listeningTo)
         => /\ clients[ws].listeningTo \in DOMAIN stations
            /\ ws \in stations[clients[ws].listeningTo].listeners
  /\ \A f \in DOMAIN stations : \A ws \in stations[f].listeners :
       /\ ws \in DOMAIN clients
       /\ clients[ws].listeningTo = f

\* a client that is not a listener still has a target and is in that
\* station's listener set, after some station has been taken off the air
C36_Witness ==
  /\ \E ws \in DOMAIN clients :
       /\ clients[ws].role # "listener"
       /\ Truthy(clients[ws].listeningTo)
       /\ ws \in stations[clients[ws].listeningTo].listeners
  /\ last.type \in {"broadcast:stop", "close"}
  /\ last.reset # {}

(***************************************************************************)
(* WebRTC frames and the listen:join pairing                               *)
(***************************************************************************)

\* frame routing together with the listen:join that pairs a listener with a
\* flat
NextPairing ==
  \/ \E ws \in SigConns : SigConnect(ws)
  \/ \E ws \in SigConns, raw \in SigRawIds, role \in SigRoles :
       SigIdentify(ws, raw, role)
  \/ \E ws \in SigConns, raw \in SigRawIds : ListenJoin(ws, raw)
  \/ \E ws \in SigConns, id \in ListenerIds : WebrtcOffer(ws, id)
  \/ \E ws \in SigConns, raw \in SigRawIds : WebrtcAnswer(ws, raw)
  \/ \E ws \in SigConns, id \in ListenerIds, raw \in IceRawIds :
       WebrtcIce(ws, id, raw)
  \/ \E ws \in SigConns : SigClose(ws)

SpecPairing == Init /\ [][NextPairing]_vars

\* C37: a webrtc:offer or broadcaster-side webrtc:ice reaches only a client
\* whose listen:join named the sender's flat, and a webrtc:answer or
\* listener-side webrtc:ice reaches the broadcaster of flat F only when the
\* sender is listening to F.
C37_FramesStayInPairing ==
  [][\A f \in out' :
       f.type \in {"webrtc:offer", "webrtc:answer", "webrtc:ice"} =>
         IF "from" \in DOMAIN f
         THEN signalClients[f.to].listeningTo = signalClients[last'.ws].flat_id
         ELSE /\ Truthy(signalClients[last'.ws].listeningTo)
              /\ IndexGet(signalClients[last'.ws].listeningTo) = f.to]_vars

(***************************************************************************)
(* the heartbeat and the peers that answer                                 *)
(***************************************************************************)

\* C38: on both channels a connection is terminated only by its own
\* heartbeat tick, at a tick that finds the flag still cleared by the
\* previous tick's ping; the flag is cleared only by a ping, and a tick that
\* comes after the connection's pong terminates nothing.
C38_AnsweredPingKeepsAlive ==
  [][/\ \A ws \in HbConns :
          /\ ws \in terminated' \ terminated
               => /\ last'.type = "hb" /\ last'.ws = ws
                  /\ isAlive[ws] = FALSE
          /\ ( /\ ws \in DOMAIN isAlive \cap DOMAIN isAlive'
               /\ isAlive[ws] /\ ~isAlive'[ws] )
               => (last'.type = "hb" /\ last'.ws = ws /\ last'.res = "ping")
          /\ ( /\ last.type = "pong" /\ last.ws = ws
               /\ last'.type = "hb" /\ last'.ws = ws )
               => (ws \notin terminated' /\ last'.res = "ping")
     /\ \A ws \in SigHbConns :
          /\ ws \in sigTerminated' \ sigTerminated
               => /\ last'.type = "hb2" /\ last'.ws = ws
                  /\ sigIsAlive[ws] = FALSE
          /\ ( /\ ws \in DOMAIN sigIsAlive \cap DOMAIN sigIsAlive'
               /\ sigIsAlive[ws] /\ ~sigIsAlive'[ws] )
               => (last'.type = "hb2" /\ last'.ws = ws /\ last'.res = "ping")
          /\ ( /\ last.type = "pong2" /\ last.ws = ws
               /\ last'.type = "hb2" /\ last'.ws = ws )
               => (ws \notin sigTerminated' /\ last'.res = "ping")]_vars

\* a presence connection has answered its first ping and has just been pinged
\* at its second tick, while a silent signaling connection was terminated
C38_Witness ==
  /\ last.type = "hb" /\ last.res = "ping"
  /\ last.ws \in responsive
  /\ ticks[last.ws] = 2
  /\ last.ws \notin terminated
  /\ sigTerminated # {}

(***************************************************************************)
(* which setup code a setup call is compared with                          *)
(***************************************************************************)

\* the positions of the flat's five newest codes in the rows a SELECT returned
FiveNewest(rows, flat_id) ==
  {i \in DOMAIN rows : i <= 5 /\ rows[i].flat_id = flat_id}

\* a code row that is unused and has not expired at time t
Usable(row, t) == row.used_at = NeverUsed /\ row.expires_at > t

\* C39: setupPinWithCode returns NO_VALID_CODE exactly when none of the five
\* newest codes it read is unused and unexpired; otherwise it compares the
\* supplied code with the newest such code alone, and a code that does not
\* match that one is answered INVALID_CODE with nothing written.
C39_NewestValidCodeOnly ==
  [][/\ (last'.type = "setupPinWithCode" /\ last'.res = "codes") =>
          \A c \in PoolClients :
            SetupCodes(last'.ws, c) =>
              LET rows == CodesSeen(c)
                  call == calls[last'.ws]
                  after == calls'[last'.ws]
                  five == FiveNewest(rows, call.flat_id)
              IN IF \A k \in five : ~Usable(rows[k], call.now)
                 THEN /\ after.pc = "done"
                      /\ after.result = Err("NO_VALID_CODE")
                 ELSE /\ after.pc = "setup:compare"
                      /\ after.valid \in five
                      /\ Usable(rows[after.valid], call.now)
                      /\ \A j \in five :
                           j < after.valid => ~Usable(rows[j], call.now)
     /\ (last'.type = "setupPinWithCode" /\ last'.res = "compare") =>
          LET call == calls[last'.ws]
              after == calls'[last'.ws]
          IN IF Hash(trim(StringOf(call.code))) = codes[call.valid].code_hash
             THEN after.pc = "setup:begin"
             ELSE /\ after.pc = "done"
                  /\ after.result = Err("INVALID_CODE")
                  /\ ~after.wrote
                  /\ UNCHANGED <<flatRow, codes, pool, sessionStore>>]_vars

\* a call that supplied the older code J, unused and unexpired, was answered
\* INVALID_CODE because the newer code K is unused and unexpired too
C39_Witness ==
  \E p \in Procs :
    /\ calls[p].pc = "done"
    /\ calls[p].op = "setupPinWithCode"
    /\ calls[p].result = Err("INVALID_CODE")
    /\ trim(StringOf(calls[p].code)) = SetupCodeJ
    /\ Len(codes) = 2
    /\ \A k \in DOMAIN codes : Usable(codes[k], now)
    /\ codes[2].code_hash = Hash(SetupCodeJ)

(***************************************************************************)
(* what a refused login or setup call leaves behind                        *)
(***************************************************************************)

\* the logins of the runs below: right, wrong and malformed PIN, without the
\* password that a setup call may have stored
ErrorLogins ==
  [flat_id : { <<" ", "a">> },
   pin4 : { RightPin, <<"4", "3", "2", "1">>, <<"1", "2", "3">> },
   password : { NULL }]

\* POST /api/login without a cookie on slot 1 and POST /api/setup-pin on the
\* last slot, on a flat that may be missing, disabled or not yet set up
NextErrors ==
  \/ \E args \in ErrorLogins, c \in PoolClients :
        HttpLoginStart(1, NoSid, args, c)
  \/ \E c \in PoolClients : HttpLoginSelect(1, c)
  \/ \E c \in PoolClients : HttpLoginUpdate(1, c)
  \/ \E c \in PoolClients : HttpLoginSave(1, c)
  \/ \E args \in SetupInputs : SetupStart(MaxProcs, args)
  \/ \E c \in PoolClients : SetupFlat(MaxProcs, c)
  \/ \E c \in PoolClients : SetupCodes(MaxProcs, c)
  \/ SetupCompare(MaxProcs)
  \/ \E c \in PoolClients : SetupBegin(MaxProcs, c)
  \/ \E c \in PoolClients : SetupUpdateFlat(MaxProcs, c)
  \/ \E c \in PoolClients : SetupMarkUsed(MaxProcs, c)
  \/ \E c \in PoolClients : SetupMarkFails(MaxProcs, c)
  \/ \E c \in PoolClients : SetupCommit(MaxProcs, c)
  \/ \E c \in PoolClients : SetupRollback(MaxProcs, c)

SpecErrors == InitSetup /\ [][NextErrors]_vars

\* the positions of a call at which it has sent no write yet
BeforeWrites ==
  { "login:select", "setup:flat", "setup:codes", "setup:compare" }

\* a step of slot p ends its call with an error value
ReturnsError(p) ==
  /\ last'.type \in { "login", "setupPinWithCode" }
  /\ last'.ws = p
  /\ calls'[p].pc = "done"
  /\ ~calls'[p].result.ok

\* C40: a loginFlat or setupPinWithCode call that returns an error value has
\* written nothing: the step that returns it leaves flats, setup_codes, the
\* sessions and every open transaction as they were, every earlier step of
\* the call did, and last_login_at changes only with a login that passed its
\* checks.
C40_ErrorReturnWritesNothing ==
  [][\A p \in Procs :
       /\ ReturnsError(p)
            => /\ UNCHANGED <<flatRow, codes, pool, sessionStore>>
               /\ last'.res = "start" \/ calls[p].pc \in BeforeWrites
       /\ ( /\ last'.ws = p
            /\ last'.type \in { "login", "setupPinWithCode" }
            /\ last'.res # "start"
            /\ calls[p].pc \in BeforeWrites )
            => UNCHANGED <<flatRow, codes, pool, sessionStore>>
       /\ ( /\ flatRow # NoRow /\ flatRow' # NoRow
            /\ flatRow'.last_login_at # flatRow.last_login_at )
            => flatRow.flat_id \in okBy'.flats]_vars

\* a login with a wrong PIN was refused after the flat had been set up and a
\* login had succeeded on it; and a setup call was refused for its code
C40_Witness ==
  /\ calls[1].pc = "done"
  /\ calls[1].op = "login"
  /\ calls[1].result = Err("INVALID_CREDENTIALS")
  /\ flatRow # NoRow
  /\ flatRow.last_login_at # NeverLoggedIn
  /\ calls[MaxProcs].pc = "done"
  /\ calls[MaxProcs].op = "setupPinWithCode"
  /\ calls[MaxProcs].result \in { Err("INVALID_CODE"), Err("NO_VALID_CODE") }

====
